---------------------------- MODULE Spec2Model ----------------------------
(***************************************************************************)
(* Model of the Private Home Box Gateway (phbgateway): the auth store      *)
(* (auth.py) and the connection handler, device registry and relay         *)
(* (relay.py).                                                             *)
(*                                                                         *)
(* The Gateway is one asyncio event loop.  Code between two awaits that    *)
(* can suspend runs atomically, so every action below is one such stretch  *)
(* of a handler.  Acquiring an uncontended asyncio.Lock does not suspend;  *)
(* _registry_lock is held across an await only by register(), so a         *)
(* handler may be parked in front of the registry lock while another       *)
(* connection registers.                                                   *)
(***************************************************************************)
EXTENDS Integers, Sequences, FiniteSets, TLC

(***************************************************************************)
(* Bounds of the model.                                                    *)
(***************************************************************************)
\* Number of WebSocket connections the Gateway accepts in a run.
MaxConns == 3
\* Number of connections whose handler runs at the same time.
MaxLive == 2
\* Frames the Gateway reads after the handshakes, over all connections.
MaxFrames == 2
\* The clock of the auth store runs over 0..MaxTime.
MaxTime == 1
\* Frames the Gateway reads after the handshakes in SpecHandshake.
MaxHandshakeFrames == 1

Conns == 1..MaxConns

\* dict.get() of a missing key, JSON null, None.
Absent == "<absent>"

(***************************************************************************)
(* Keys, signatures, attestation blobs (auth.py).                          *)
(***************************************************************************)
\* Raw 32-byte Ed25519 public keys.  K1, K2 are desktop keys, KD1, KD2 are
\* device keys.  The holder of a key can sign any message with it.
DesktopKeys == {"K1", "K2"}
DeviceKeys == {"KD1", "KD2"}
RawKeys == DesktopKeys \cup DeviceKeys

\* base64 strings a client can put in a public_key field.  "K1" and "K1~"
\* are two base64 spellings of the same 32 bytes (non-canonical trailing
\* bits are accepted by b64decode); "short" decodes to fewer than 32 bytes;
\* "!b64" is not base64.
PubKeyStrs == {"K1", "K1~", "K2", "short", "!b64"}

\* The outcome of a raised exception inside a try block.
KeyError == "<error>"

\* auth.py:33-37.  base64-decodes and requires exactly 32 bytes.
_load_public_key_b64(public_key_b64) ==
    CASE public_key_b64 \in {"K1", "K1~"} -> "K1"
      [] public_key_b64 \in {"K2", "KD1", "KD2"} -> public_key_b64
      [] OTHER -> KeyError

\* The nonce of a connection is secrets.token_hex(32): a fresh value for
\* every connection, here the connection's own number.
generate_nonce(c) == c
Nonces == {generate_nonce(c) : c \in Conns}

\* Timestamps of an expires_at field and what datetime.fromisoformat makes
\* of them: "t1", "t2" are ISO-8601 instants with a timezone at times 1
\* and 2, "naive" has no timezone (ValueError).
ParseError == -1
\* auth.py:25-30
_parse_iso8601_utc(value) ==
    CASE value = "t1" -> 1
      [] value = "t2" -> 2
      [] OTHER -> ParseError

\* Attestation blobs (strings) and what json.loads makes of them.
\* json is "object", "nonobject" (valid JSON that is no dict) or "invalid".
\* "{ d1, KD1, t2 }" is the object of "{d1,KD1,t2}" written with spaces:
\* other bytes, the same JSON value.
Blob(j, d, k, e) ==
    [json |-> j, device_id |-> d, device_public_key |-> k, expires_at |-> e]
AttestationBlobs ==
    [b \in {"{d1,KD1,t2}", "{d2,KD2,t2}", "{d1,KD1,t1}", "{d2,KD2,t1}",
            "{ d1, KD1, t2 }", "{-,KD1,t2}",
            "{'',KD1,t2}", "{d1,-,t2}", "{d1,short,t2}", "{d1,KD1,-}",
            "{d1,KD1,naive}", "[]", "{"} |->
        CASE b = "{d1,KD1,t2}" -> Blob("object", "d1", "KD1", "t2")
          [] b = "{d2,KD2,t2}" -> Blob("object", "d2", "KD2", "t2")
          [] b = "{d1,KD1,t1}" -> Blob("object", "d1", "KD1", "t1")
          [] b = "{d2,KD2,t1}" -> Blob("object", "d2", "KD2", "t1")
          [] b = "{ d1, KD1, t2 }" -> Blob("object", "d1", "KD1", "t2")
          [] b = "{-,KD1,t2}" -> Blob("object", Absent, "KD1", "t2")
          [] b = "{'',KD1,t2}" -> Blob("object", "", "KD1", "t2")
          [] b = "{d1,-,t2}" -> Blob("object", "d1", Absent, "t2")
          [] b = "{d1,short,t2}" -> Blob("object", "d1", "short", "t2")
          [] b = "{d1,KD1,-}" -> Blob("object", "d1", "KD1", Absent)
          [] b = "{d1,KD1,naive}" -> Blob("object", "d1", "KD1", "naive")
          [] b = "[]" -> Blob("nonobject", Absent, Absent, Absent)
          [] OTHER -> Blob("invalid", Absent, Absent, Absent)]
BlobStrs == DOMAIN AttestationBlobs
\* The blobs a client makes up itself.
ClientBlobs == BlobStrs \ {"{d2,KD2,t1}", "{ d1, KD1, t2 }"}
json_loads_blob(attestation_blob) == AttestationBlobs[attestation_blob]

\* Messages that get signed: the bytes of a nonce, or the bytes of a blob.
NonceMsg(n) == [kind |-> "nonce", nonce |-> n, blob |-> ""]
\* The bytes of a blob taken from its JSON value and not from its text.
BlobMsg_of_value(b) ==
    [kind |-> "blob", nonce |-> 0,
     blob |-> IF b = "{ d1, KD1, t2 }" THEN "{d1,KD1,t2}" ELSE b]
\* attestation_blob.encode("utf-8"), auth.py:134 and crypto.py:148.
BlobMsg(b) == [kind |-> "blob", nonce |-> 0, blob |-> b]

\* An Ed25519 signature is the pair of its signing key and signed message;
\* BadSig is a string that is no valid signature of anything, NoSig a
\* missing or empty signature field.
Sign(k, m) == [signer |-> k, msg |-> m]
BadSig == Sign("garbage", NonceMsg(0))
NoSig == Sign(Absent, NonceMsg(0))
\* A nonce issued on another connection.
OtherNonce(n) == IF n + 1 \in Nonces THEN n + 1 ELSE 1
\* What a client can send as a signature when the nonce is n: a signature of
\* n by one of keys, a signature of another nonce (a replay), or garbage.
NonceSigs(n, keys) ==
    {Sign(k, NonceMsg(n)) : k \in keys}
        \cup {Sign(k, NonceMsg(OtherNonce(n))) : k \in keys \cap {"K1", "KD1"}}
        \cup {BadSig}
\* What a client can send as desktop_signature beside blob b: a signature of
\* b by a desktop key, a desktop signature of another blob, or garbage.
BlobSigs(b) ==
    {Sign(k, BlobMsg(b)) : k \in DesktopKeys}
        \cup {Sign("K1", BlobMsg(IF b = "[]" THEN "{d1,KD1,t2}" ELSE "[]"))}
        \cup {BadSig}

\* datetime.isoformat() of the instants 1 and 2 (crypto.py:144-145).
isoformat(t) == IF t = 1 THEN "t1" ELSE "t2"
\* crypto.py:132 and 140: an attestation expires expires_days after it was
\* issued; thirty days are one unit of time here.
expires_days == 1
\* json.dumps(blob_obj, separators=(",", ":"), sort_keys=True),
\* crypto.py:147: the compact text of the object.
json_dumps_blob(blob_obj) ==
    CHOOSE b \in {"{d1,KD1,t2}", "{d2,KD2,t2}", "{d1,KD1,t1}", "{d2,KD2,t1}"} :
        AttestationBlobs[b] = blob_obj
\* sign_bytes, crypto.py:102-104, with the private key of public key k.
sign_bytes(k, data) == Sign(k, data)
\* create_device_attestation, crypto.py:128-150, called at time t with the
\* private key of public key k.
create_device_attestation(k, device_id, device_public_key_b64, t) ==
    LET blob == json_dumps_blob(Blob("object", device_id, device_public_key_b64,
                                     isoformat(t + expires_days)))
    IN [blob |-> blob, desktop_signature |-> sign_bytes(k, BlobMsg(blob))]
\* The attestations the Hub can have issued up to time t: device d1 has key
\* KD1 and d2 has KD2.
Issued(t) ==
    {create_device_attestation(k, p[1], p[2], u) :
        k \in DesktopKeys, p \in {<<"d1", "KD1">>, <<"d2", "KD2">>}, u \in 0..t}

\* key.verify(signature, data) of the cryptography package: TRUE when it
\* returns, FALSE when it raises InvalidSignature (or the base64 is bad).
Ed25519Verify(key, signature, data) ==
    /\ key # KeyError
    /\ signature.signer = key
    /\ signature.msg = data

\* auth.py:45-49, plus the case that the call raised instead of returning.
AuthResult(ok, device_id, reason) ==
    [ok |-> ok, device_id |-> device_id, reason |-> reason, raised |-> FALSE]
Raised ==
    [ok |-> FALSE, device_id |-> Absent, reason |-> Absent, raised |-> TRUE]

\* auth.py:80-106.  Gives the result and the trust root after the call.
verify_desktop_claim_rotating(root, nonce_hex, public_key_b64, nonce_signature_b64) ==
    LET key == _load_public_key_b64(public_key_b64) IN
    IF ~Ed25519Verify(key, nonce_signature_b64, NonceMsg(nonce_hex))
    THEN [result |-> AuthResult(FALSE, Absent, "desktop claim signature invalid"),
          key |-> root]
    ELSE [result |-> AuthResult(TRUE, Absent, Absent), key |-> key]

verify_desktop_claim_unverified(root, nonce_hex, public_key_b64, nonce_signature_b64) ==
    LET key == _load_public_key_b64(public_key_b64) IN
    IF key = KeyError
    THEN [result |-> AuthResult(FALSE, Absent, "desktop claim signature invalid"),
          key |-> root]
    ELSE IF root # Absent
         THEN IF root # key
              THEN [result |-> AuthResult(FALSE, Absent,
                                   "gateway already claimed by another desktop"),
                    key |-> root]
              ELSE [result |-> AuthResult(TRUE, Absent, Absent), key |-> root]
         ELSE [result |-> AuthResult(TRUE, Absent, Absent), key |-> key]

verify_desktop_claim(root, nonce_hex, public_key_b64, nonce_signature_b64) ==
    LET key == _load_public_key_b64(public_key_b64) IN
    IF ~Ed25519Verify(key, nonce_signature_b64, NonceMsg(nonce_hex))
    THEN [result |-> AuthResult(FALSE, Absent, "desktop claim signature invalid"),
          key |-> root]
    ELSE IF root # Absent
         THEN IF root # key
              THEN [result |-> AuthResult(FALSE, Absent,
                                   "gateway already claimed by another desktop"),
                    key |-> root]
              ELSE [result |-> AuthResult(TRUE, Absent, Absent), key |-> root]
         ELSE [result |-> AuthResult(TRUE, Absent, Absent), key |-> key]

\* auth.py:108-116
verify_desktop_auth(root, nonce_hex, nonce_signature_b64) ==
    IF root = Absent
    THEN AuthResult(FALSE, Absent, "gateway not claimed by desktop yet")
    ELSE IF Ed25519Verify(root, nonce_signature_b64, NonceMsg(nonce_hex))
         THEN AuthResult(TRUE, Absent, Absent)
         ELSE AuthResult(FALSE, Absent, "desktop signature invalid")

\* not isinstance(v, str) or not v
Missing(v) == v \in {Absent, ""}

\* auth.py:118-167.  t is datetime.now(UTC).
verify_device_auth(root, t, nonce_hex, attestation_blob, desktop_signature_b64, nonce_signature_b64) ==
    LET blob == json_loads_blob(attestation_blob) IN
    IF root = Absent
    THEN AuthResult(FALSE, Absent, "gateway not claimed by desktop yet")
    ELSE IF ~Ed25519Verify(root, desktop_signature_b64, BlobMsg(attestation_blob))
    THEN AuthResult(FALSE, Absent, "attestation signature invalid")
    ELSE IF blob.json = "invalid"
    THEN AuthResult(FALSE, Absent, "attestation blob is not valid JSON")
    ELSE IF blob.json = "nonobject"
    THEN Raised   \* blob.get on a list, str, int: AttributeError, not caught
    ELSE IF Missing(blob.device_id)
    THEN AuthResult(FALSE, Absent, "attestation missing device_id")
    ELSE IF Missing(blob.device_public_key)
    THEN AuthResult(FALSE, Absent, "attestation missing device_public_key")
    ELSE IF Missing(blob.expires_at)
    THEN AuthResult(FALSE, Absent, "attestation missing expires_at")
    ELSE IF _parse_iso8601_utc(blob.expires_at) = ParseError
    THEN AuthResult(FALSE, Absent, "attestation expires_at invalid")
    ELSE IF _parse_iso8601_utc(blob.expires_at) <= t
    THEN AuthResult(FALSE, Absent, "attestation expired")
    ELSE IF ~Ed25519Verify(_load_public_key_b64(blob.device_public_key),
                           nonce_signature_b64, NonceMsg(nonce_hex))
    THEN AuthResult(FALSE, Absent, "device nonce signature invalid")
    ELSE AuthResult(TRUE, blob.device_id, Absent)

(***************************************************************************)
(* The connection handler's view of frames (relay.py).                     *)
(***************************************************************************)
\* Device ids a peer can authenticate as, and a target nobody has.
DeviceIds == {"hub", "d1", "d2"}
UnknownId == "dx"
\* JSON null in a field that is present.
Null == "<null>"
\* No connection (None, or a key that is not in a dict).
NoConn == 0

\* The first frame a client sends, as json.loads reads it.  json is "object",
\* "nonobject" (valid JSON that is no dict) or "invalid"; attestation is
\* "object" when the field holds a dict.
F0 ==
    [json |-> "object", type |-> Absent, auth_mode |-> Absent,
     device_id |-> Absent, public_key |-> Absent, nonce_signature |-> NoSig,
     signature |-> NoSig, attestation |-> Absent, blob |-> Absent,
     desktop_signature |-> NoSig, pairing_code |-> Absent,
     device_public_key |-> Absent]
AuthResponse(mode) == [F0 EXCEPT !.type = "auth_response", !.auth_mode = mode]
DesktopClaim(d, pk, sig) ==
    [AuthResponse("desktop_claim") EXCEPT !.device_id = d, !.public_key = pk,
                                          !.nonce_signature = sig]
DesktopAuth(d, sig) ==
    [AuthResponse("desktop") EXCEPT !.device_id = d, !.nonce_signature = sig]
DeviceAuth(att, b, dsig, sig) ==
    [AuthResponse("device") EXCEPT !.attestation = att, !.blob = b,
                                   !.desktop_signature = dsig,
                                   !.nonce_signature = sig]
PairingRequest(code, k) ==
    [F0 EXCEPT !.type = "pairing_request", !.pairing_code = code,
               !.device_public_key = k]

\* The first frames a client can send on a connection whose nonce is n.
FirstFrames(n) ==
    {[F0 EXCEPT !.json = "invalid"], [F0 EXCEPT !.json = "nonobject"],
     [F0 EXCEPT !.type = "hello"], AuthResponse(Absent), AuthResponse("bogus")}
    \cup {PairingRequest(code, k) : code \in {"135246", Absent},
                                    k \in {"KD1", Absent}}
    \cup {DesktopClaim(d, pk, Sign(k, NonceMsg(n))) :
            d \in {"hub", "d1"}, pk \in {"K1", "K2"}, k \in {"K1", "K2"}}
    \cup {DesktopClaim(Absent, "K1", Sign("K1", NonceMsg(n))),
          DesktopClaim("hub", Absent, Sign("K1", NonceMsg(n))),
          DesktopClaim("hub", "K1", NoSig),
          DesktopClaim("hub", "K1", Sign("K1", NonceMsg(OtherNonce(n)))),
          [DesktopClaim("hub", "K1", NoSig)
              EXCEPT !.signature = Sign("K1", NonceMsg(n))]}
    \cup {DesktopAuth("hub", sig) :
            sig \in {Sign("K1", NonceMsg(n)), Sign("K2", NonceMsg(n)), BadSig, NoSig}}
    \cup {DesktopAuth(Absent, Sign("K1", NonceMsg(n)))}
    \cup {DeviceAuth("object", b, Sign(k, BlobMsg(b)), Sign(dk, NonceMsg(n))) :
            b \in {"{d1,KD1,t2}", "{d2,KD2,t2}"}, k \in {"K1", "K2"},
            dk \in {"KD1", "KD2"}}
    \cup {DeviceAuth("object", b, Sign("K1", BlobMsg(b)), Sign("KD1", NonceMsg(n))) :
            b \in {"{d1,KD1,t1}", "{'',KD1,t2}", "[]", "{"}}
    \cup {DeviceAuth(Absent, Absent, NoSig, Sign("KD1", NonceMsg(n))),
          DeviceAuth("object", Absent, Sign("K1", BlobMsg("{d1,KD1,t2}")),
                     Sign("KD1", NonceMsg(n))),
          DeviceAuth("object", "{d1,KD1,t2}", NoSig, Sign("KD1", NonceMsg(n))),
          DeviceAuth("object", "{d1,KD1,t2}", Sign("K1", BlobMsg("{d1,KD1,t2}")),
                     NoSig)}
    \cup {DesktopAuth("hub", Sign("K1", NonceMsg(OtherNonce(n))))}
    \cup {DeviceAuth("object", b, Sign("K1", BlobMsg(b)),
                     Sign("KD1", NonceMsg(OtherNonce(n)))) :
            b \in {"{d1,KD1,t2}", "[]"}}

\* What _authenticate_connection returns, the trust root after it, and
\* whether it raised instead of returning.
AuthOut(ok, device_id, reason, role, key) ==
    [ok |-> ok, device_id |-> device_id, reason |-> reason, role |-> role,
     key |-> key, raised |-> FALSE]
Reject(reason, root) == AuthOut(FALSE, Absent, reason, Absent, root)
OrAuthFailed(reason) == IF reason = Absent THEN "auth failed" ELSE reason

\* relay.py:107-182
_authenticate_connection(root, t, nonce, msg) ==
    LET signature == IF msg.nonce_signature # NoSig THEN msg.nonce_signature
                     ELSE msg.signature
    IN
    IF msg.type # "auth_response"
    THEN Reject("first message must be auth_response", root)
    ELSE IF msg.auth_mode = Absent
    THEN Reject("auth_mode is required", root)
    ELSE IF msg.auth_mode = "desktop_claim"
    THEN IF Missing(msg.device_id)
         THEN Reject("desktop_claim requires device_id", root)
         ELSE IF Missing(msg.public_key)
         THEN Reject("desktop_claim requires public_key", root)
         ELSE IF signature = NoSig
         THEN Reject("desktop_claim requires nonce_signature", root)
         ELSE LET r == verify_desktop_claim(root, nonce, msg.public_key, signature)
              IN AuthOut(r.result.ok,
                         IF r.result.ok THEN msg.device_id ELSE Absent,
                         OrAuthFailed(r.result.reason), "desktop", r.key)
    ELSE IF msg.auth_mode = "desktop"
    THEN IF Missing(msg.device_id)
         THEN Reject("desktop auth requires device_id", root)
         ELSE IF signature = NoSig
         THEN Reject("desktop auth requires nonce_signature", root)
         ELSE LET r == verify_desktop_auth(root, nonce, signature)
              IN AuthOut(r.ok, IF r.ok THEN msg.device_id ELSE Absent,
                         OrAuthFailed(r.reason), "desktop", root)
    ELSE IF msg.auth_mode = "device"
    THEN IF msg.attestation # "object"
         THEN Reject("device auth requires attestation object", root)
         ELSE IF signature = NoSig
         THEN Reject("device auth requires nonce_signature", root)
         ELSE IF Missing(msg.blob)
         THEN Reject("attestation.blob is required", root)
         ELSE IF msg.desktop_signature = NoSig
         THEN Reject("attestation.desktop_signature is required", root)
         ELSE LET r == verify_device_auth(root, t, nonce, msg.blob,
                                          msg.desktop_signature, signature)
              IN IF r.raised
                 THEN [Reject(Absent, root) EXCEPT !.raised = TRUE]
                 ELSE AuthOut(r.ok, r.device_id, OrAuthFailed(r.reason),
                              "device", root)
    ELSE Reject("unsupported auth_mode", root)

\* A frame a client sends on an authenticated connection.
C0 ==
    [json |-> "object", type |-> Absent, target_device_id |-> Absent,
     sender_device_id |-> Absent, request_id |-> 0, status |-> Absent,
     device_id |-> Absent, attestation |-> Absent, reason |-> Absent]
\* target_device_id values: missing, null, empty, a device id, an unknown id.
Targets == {Absent, Null, "", "d1", "d2", UnknownId}
\* Frames to relay: any target without a sender_device_id, and frames in
\* which the client names "hub" as the sender.
RelayFrames ==
    {[C0 EXCEPT !.target_device_id = t] : t \in Targets}
        \cup {[C0 EXCEPT !.target_device_id = t, !.sender_device_id = "hub"] :
                 t \in {Absent, "d2"}}
PR(r, st, d, why) ==
    [C0 EXCEPT !.type = "pairing_response", !.request_id = r, !.status = st,
               !.device_id = d, !.attestation = d, !.reason = why]
\* A pairing_response as a client of role device may send it.
DevicePairingResponses == {PR(r, "approved", "mobile-1", Absent) : r \in Conns}
PairingResponses ==
    {PR(r, "approved", "mobile-1", Absent) : r \in Conns \cup {0}}
        \cup {PR(r, "rejected", d, "no") : r \in Conns, d \in {Absent, "mobile-1"}}
        \cup {PR(r, st, Absent, Absent) : r \in Conns, st \in {"rejected", "bogus"}}

\* A frame the Gateway sends to a client.  relayed, from, seq and claimed
\* are not on the wire: they mark a frame sent by relay_message, the
\* connection it came in on, its position among the frames read on that
\* connection and the sender_device_id its client wrote.
M0 ==
    [type |-> Absent, relayed |-> FALSE, from |-> NoConn, seq |-> 0,
     claimed |-> Absent,
     sender_device_id |-> Absent,
     target_device_id |-> Absent, request_id |-> 0, status |-> Absent,
     device_id |-> Absent, attestation |-> Absent, reason |-> Absent,
     pairing_code |-> Absent, device_public_key |-> Absent, nonce |-> 0]

\* `if target_id:` (relay.py:84).
Truthy(v) == v \notin {Absent, Null, ""}

(***************************************************************************)
(* State.                                                                  *)
(***************************************************************************)
VARIABLES
    desktop_public_key,   \* GatewayAuthManager._desktop_public_key (raw), or Absent
    now,                  \* datetime.now(UTC)
    last,                 \* the last call made on the auth store and its result
    pc,                   \* where the handler of each connection stands
    wsOpen,               \* the connection's transport is open
    close_code,           \* the code the Gateway closed the connection with
                          \* (its first ws.close call; 0: none; 1011 is the
                          \* server's close after a handler that raised)
    first,                \* how the wait for the first frame ended: "none" (not
                          \* yet), "closed", "pairing_request", "rejected" (no
                          \* frame in time, or a frame that is no auth_response
                          \* that verifies), "passed"
    device_id,            \* handle_connection's device_id
    is_desktop,           \* handle_connection's is_desktop
    _registry,            \* relay.py:36
    _desktop_ws,          \* relay.py:41
    _pairing_pending,     \* relay.py:42, keyed by request_id
    cur,                  \* the frame the handler works on: relay_message's
                          \* out, _forward_pairing_request's msg, or the
                          \* desktop's pairing_response
    recipients,           \* relay_message's recipients still to be sent to
    _registry_lock,       \* relay.py:37: the handler that holds it, or NoConn
    lock_waiters,         \* the handlers waiting for _registry_lock, in order
    nrecv,                \* frames the handler has read after the handshake
    inbox,                \* what the Gateway has sent on each connection
    session,              \* pairing.py:13 pairing_session.json, or NoSession
    nsessions,            \* pairing sessions created so far
    approved_devices,     \* pairing.py:14 devices.json
    hub_sent,             \* the pairing_response events the controller has
                          \* handed to send_event_to_channel("devices", ...)
    dispatched,           \* how many of them the plugin's transport has read
    rpc_in,               \* notifications on their way to the PluginManager
    _event_callback,      \* base.py:32 of the devices plugin
    plugin_read,          \* Gateway frames the devices plugin has read
    plugin_out,           \* frames the devices plugin has sent to the Gateway
    inbound_queue,        \* communication_manager.py:51
    outbound_queue,       \* communication_manager.py:52
    agent_msg,            \* AgentManager.run's msg while _process runs
    nreceived,            \* messages CommunicationManager.receive was given
    tasks_done,           \* inbound_queue.task_done() calls, agent_manager.py:138
    agent_running,        \* FALSE once AgentManager.run has ended by an
                          \* exception
    data_received,        \* the argument of the last call of
                          \* CommunicationManager.receive
    _channels,            \* plugin_manager.py:56: the connection of each
                          \* connected channel, or NoConn
    channel_name,         \* plugin_manager.py:149, of each handler
    plugin_ws,            \* each plugin connection: "new", "open", "closed"
                          \* (its handler has not ended) or "done"
    to_hub,               \* frames of the plugin its handler has not read
    to_plugin,            \* frames the supervisor has sent on it
    nread,                \* how many of them the plugin's transport has read
    nframes,              \* frames the plugins have sent so far
    outbound_running,     \* FALSE once _outbound_worker has ended by an
                          \* exception
    nenqueued,            \* calls of enqueue_outbound
    handed,               \* ids of the messages given to send_to_channel
    dropped,              \* ids of those send_to_channel had no channel for
    _stop_event,          \* plugin_manager.py:54
    stop_at,              \* when it was set
    run_pc,               \* where PluginManager.run is
    wake_at,              \* when its asyncio.sleep(1) ends
    cancelled,            \* server_task.cancel() was called
    _subprocesses,        \* plugin_manager.py:57: the state of each child
    transport_pc,         \* where PluginTransport.run of each plugin is
    _ws,                  \* transport.py:44 of each plugin
    hooks,                \* the lifecycle hooks the transport has called
    _device_id,           \* plugin.py:69: whether each plugin is configured
    transport_stop_event, \* transport.py:46, of each plugin
    futures,              \* the calls of PluginTransport.request: the plugin,
                          \* its connection, whether the id is in _pending
                          \* (transport.py:45) and how the call stands
    backoff,              \* plugin.py:129, in seconds
    gw_pc,                \* where DevicesChannel._run_gateway_loop is
    sleeps                \* its sleeps so far (plugin.py:148): how long, and
                          \* whether the connection before had authenticated

authVars == <<desktop_public_key, now, last>>
connVars == <<pc, wsOpen, close_code, first, device_id, is_desktop>>
lockVars == <<_registry_lock, lock_waiters>>
relayVars == <<_registry, lockVars, _desktop_ws, _pairing_pending, cur,
               recipients, nrecv, inbox>>
hubVars == <<session, nsessions, approved_devices, hub_sent, dispatched, rpc_in, _event_callback, plugin_read, plugin_out>>
agentVars == <<inbound_queue, outbound_queue, agent_msg, nreceived, tasks_done, agent_running, data_received>>
connsVars == <<_channels, channel_name, plugin_ws, to_hub, to_plugin, nread, nframes>>
workerVars == <<outbound_running, nenqueued, handed, dropped>>
runVars == <<_stop_event, stop_at, run_pc, wake_at, cancelled, _subprocesses>>
transportVars == <<transport_pc, _ws, hooks, _device_id>>
rpcVars == <<transport_stop_event, futures>>
loopVars == <<backoff, gw_pc, sleeps>>
supVars == <<connsVars, workerVars, runVars, transportVars, rpcVars, loopVars>>
vars == <<authVars, connVars, relayVars, hubVars, agentVars, supVars>>

NoCall ==
    [op |-> "none", nonce |-> 0, public_key |-> Absent, signature |-> NoSig,
     blob |-> Absent, desktop_signature |-> NoSig, before |-> Absent,
     at |-> 0, result |-> AuthResult(FALSE, Absent, Absent)]

\* No connection has been accepted yet (relay.py:36-42).
GatewayInit ==
    /\ pc = [c \in Conns |-> "new"]
    /\ wsOpen = [c \in Conns |-> FALSE]
    /\ close_code = [c \in Conns |-> 0]
    /\ first = [c \in Conns |-> "none"]
    /\ device_id = [c \in Conns |-> Absent]
    /\ is_desktop = [c \in Conns |-> FALSE]
    /\ _registry = [d \in DeviceIds |-> NoConn]
    /\ _registry_lock = NoConn
    /\ lock_waiters = <<>>
    /\ _desktop_ws = NoConn
    /\ _pairing_pending = [r \in Conns |-> NoConn]
    /\ cur = [c \in Conns |-> M0]
    /\ recipients = [c \in Conns |-> {}]
    /\ nrecv = [c \in Conns |-> 0]
    /\ inbox = [c \in Conns |-> <<>>]

\* No pairing session, no approved device, nothing sent yet; the transport
\* of the devices plugin has set no event callback (transport.py:106-110
\* wires _emit_callback only).
NoSession == [sid |-> 0, code |-> Absent, created_at |-> 0, ttl_seconds |-> 0]
HubInit ==
    /\ session = NoSession
    /\ nsessions = 0
    /\ approved_devices = <<>>
    /\ hub_sent = <<>>
    /\ dispatched = 0
    /\ rpc_in = <<>>
    /\ _event_callback = Null
    /\ plugin_read = 0
    /\ plugin_out = <<>>

\* AgentManager.run holds no message.
NoMsg == [id |-> 0, channel |-> Absent, direction |-> Absent, sender_id |-> Null, content_type |-> Absent]
\* The plugin supervisor (plugin_manager.py:47-59) and the router's
\* outbound worker before anything has happened: PluginManager.run is
\* about to spawn the channels, no plugin has connected.
MaxPluginConns == 2
PluginConns == 1..MaxPluginConns
ChannelNames == {"devices", "echo"}
MaxRequests == 1
\* uuid4().hex, transport.py:204: a new string for each call of request.
uuid4 == <<"r1", "r2">>
RequestIds == {uuid4[i] : i \in 1..MaxRequests}
\* request has not been called.
NoFuture == [plugin |-> Absent, conn |-> NoConn, pending |-> FALSE, state |-> "none"]
\* plugin.py:29-30, in seconds.
BACKOFF_BASE == 1
BACKOFF_MAX == 60
SupInit ==
    /\ _channels = [n \in ChannelNames |-> NoConn]
    /\ channel_name = [c \in PluginConns |-> Null]
    /\ plugin_ws = [c \in PluginConns |-> "new"]
    /\ to_hub = [c \in PluginConns |-> <<>>]
    /\ to_plugin = [c \in PluginConns |-> <<>>]
    /\ nread = [c \in PluginConns |-> 0]
    /\ nframes = 0
    /\ outbound_running = TRUE
    /\ nenqueued = 0
    /\ handed = <<>>
    /\ dropped = {}
    /\ _stop_event = FALSE
    /\ stop_at = 0
    /\ run_pc = "spawn"
    /\ wake_at = 0
    /\ cancelled = FALSE
    /\ _subprocesses = [n \in ChannelNames |-> "none"]
    /\ transport_pc = [n \in ChannelNames |-> "idle"]
    /\ _ws = [n \in ChannelNames |-> NoConn]
    /\ hooks = [n \in ChannelNames |-> <<>>]
    /\ _device_id = [n \in ChannelNames |-> ""]
    /\ transport_stop_event = [n \in ChannelNames |-> FALSE]
    /\ futures = [i \in RequestIds |-> NoFuture]
    /\ backoff = BACKOFF_BASE
    /\ gw_pc = "connecting"
    /\ sleeps = <<>>

\* receive has not been called.
NoData == [channel |-> Absent, direction |-> Absent, sender_id |-> Null, content_type |-> Absent]
\* communication_manager.py:51-52: both queues are empty.
AgentInit ==
    /\ inbound_queue = <<>>
    /\ outbound_queue = <<>>
    /\ agent_msg = NoMsg
    /\ nreceived = 0
    /\ tasks_done = 0
    /\ agent_running = TRUE
    /\ data_received = NoData

(***************************************************************************)
(* The Gateway: handle_connection, one action per stretch between awaits.  *)
(***************************************************************************)
RECURSIVE SumUpTo(_, _)
SumUpTo(f, n) == IF n = 0 THEN 0 ELSE f[n] + SumUpTo(f, n - 1)
\* Frames read so far on authenticated connections.
FramesRead == SumUpTo(nrecv, MaxConns)

\* ws.send(msg): the peer gets msg when the transport is open; on a closed
\* transport send raises ConnectionClosed and nothing is delivered.
ws_send_reordered(box, msg) == <<msg>> \o box
ws_send(box, msg) == Append(box, msg)

Sent(c, msg) == [inbox EXCEPT ![c] = ws_send(@, msg)]

\* handle_connection, relay.py:281-282.  Connections are numbered in the
\* order the server accepts them; at most `live` handlers run at a time.
Accept(c, live) ==
    /\ pc[c] = "new"
    /\ \A d \in Conns : d < c => pc[d] # "new"
    /\ Cardinality({d \in Conns : pc[d] \notin {"new", "done"}}) < live
    /\ pc' = [pc EXCEPT ![c] = "await_first"]
    /\ wsOpen' = [wsOpen EXCEPT ![c] = TRUE]
    /\ inbox' = Sent(c, [M0 EXCEPT !.type = "auth_challenge",
                                   !.nonce = generate_nonce(c)])
    /\ UNCHANGED <<hubVars, agentVars, supVars,
                   authVars, close_code, first, device_id, is_desktop,
                   _registry, lockVars, _desktop_ws, _pairing_pending, cur,
                   recipients, nrecv>>

\* The peer closes the connection, or the connection is lost, while the
\* handler waits for a frame or for the pairing to end.
PeerClose(c) ==
    /\ wsOpen[c]
    /\ pc[c] \in {"await_first", "running", "pairing_wait"}
    /\ wsOpen' = [wsOpen EXCEPT ![c] = FALSE]
    /\ UNCHANGED <<hubVars, agentVars, supVars,
                   authVars, pc, close_code, first, device_id, is_desktop,
                   relayVars>>

\* relay.py:285-289: no first frame within AUTH_TIMEOUT_SECONDS.
AuthTimeout(c) ==
    /\ pc[c] = "await_first"
    /\ wsOpen[c]
    /\ pc' = [pc EXCEPT ![c] = "done"]
    /\ first' = [first EXCEPT ![c] = "rejected"]
    /\ wsOpen' = [wsOpen EXCEPT ![c] = FALSE]
    /\ close_code' = [close_code EXCEPT ![c] = 4003]
    /\ UNCHANGED <<hubVars, agentVars, supVars,
                   authVars, device_id, is_desktop, relayVars>>

\* relay.py:290-291: the connection closed before a first frame.
FirstRecvClosed(c) ==
    /\ pc[c] = "await_first"
    /\ ~wsOpen[c]
    /\ pc' = [pc EXCEPT ![c] = "done"]
    /\ first' = [first EXCEPT ![c] = "closed"]
    /\ UNCHANGED <<hubVars, agentVars, supVars,
                   authVars, wsOpen, close_code, device_id, is_desktop,
                   relayVars>>

\* relay.py:293-302: the first frame is not JSON, or is no JSON object.
FirstFrameInvalid(c, FF) ==
    \E m \in {f \in FF : f.json # "object"} :
        /\ pc[c] = "await_first"
        /\ wsOpen[c]
        /\ pc' = [pc EXCEPT ![c] = "done"]
        /\ first' = [first EXCEPT ![c] = "rejected"]
        /\ wsOpen' = [wsOpen EXCEPT ![c] = FALSE]
        /\ close_code' = [close_code EXCEPT ![c] = 4003]
        /\ UNCHANGED <<hubVars, agentVars, supVars,
                       authVars, device_id, is_desktop, relayVars>>

\* secrets.token_hex(12): a fresh id for every pairing request, here the
\* number of the caller's connection.
request_id_of(c) == c

\* relay.py:204-211: both fields are non-empty strings.
pairing_request_code_only(m) == ~Missing(m.pairing_code)
pairing_request_valid(m) ==
    ~Missing(m.pairing_code) /\ ~Missing(m.device_public_key)

\* relay.py:304-306 and _forward_pairing_request, relay.py:203-232.
_forward_pairing_request(c, FF) ==
    \E m \in {f \in FF : f.json = "object" /\ f.type = "pairing_request"} :
        /\ pc[c] = "await_first"
        /\ wsOpen[c]
        /\ first' = [first EXCEPT ![c] = "pairing_request"]
        /\ cur' = [cur EXCEPT ![c] =
                     [M0 EXCEPT !.type = "pairing_request",
                                !.pairing_code = m.pairing_code,
                                !.device_public_key = m.device_public_key]]
        /\ IF ~pairing_request_valid(m)
           THEN /\ pc' = [pc EXCEPT ![c] = "done"]
                /\ wsOpen' = [wsOpen EXCEPT ![c] = FALSE]
                /\ close_code' = [close_code EXCEPT ![c] = 4004]
                /\ UNCHANGED <<_pairing_pending, inbox>>
           ELSE IF _desktop_ws = NoConn
           THEN /\ pc' = [pc EXCEPT ![c] = "done"]
                /\ wsOpen' = [wsOpen EXCEPT ![c] = FALSE]
                /\ close_code' = [close_code EXCEPT ![c] = 4006]
                /\ UNCHANGED <<_pairing_pending, inbox>>
           ELSE /\ _pairing_pending' =
                       [_pairing_pending EXCEPT ![request_id_of(c)] = c]
                /\ IF ~wsOpen[_desktop_ws]
                   THEN \* desktop_ws.send raises: the handler ends, the
                        \* server closes the connection with 1011
                        /\ pc' = [pc EXCEPT ![c] = "done"]
                        /\ wsOpen' = [wsOpen EXCEPT ![c] = FALSE]
                        /\ close_code' = [close_code EXCEPT ![c] = 1011]
                        /\ UNCHANGED inbox
                   ELSE /\ pc' = [pc EXCEPT ![c] = "pairing_wait"]
                        /\ inbox' =
                             [inbox EXCEPT
                                ![_desktop_ws] = ws_send(@,
                                    [M0 EXCEPT !.type = "pairing_request",
                                        !.request_id = request_id_of(c),
                                        !.pairing_code = m.pairing_code,
                                        !.device_public_key = m.device_public_key]),
                                ![c] = ws_send(@,
                                    [M0 EXCEPT !.type = "pairing_pending",
                                        !.request_id = request_id_of(c)])]
                        /\ UNCHANGED <<wsOpen, close_code>>
        /\ UNCHANGED <<hubVars, agentVars, supVars,
                       authVars, device_id, is_desktop, _registry, lockVars,
                       _desktop_ws, recipients, nrecv>>

\* relay.py:234-235: the caller's socket closed while the pairing waits.
PairingWaitClosed(c) ==
    /\ pc[c] = "pairing_wait"
    /\ ~wsOpen[c]
    /\ pc' = [pc EXCEPT ![c] = "done"]
    /\ UNCHANGED <<hubVars, agentVars, supVars,
                   authVars, wsOpen, close_code, first, device_id, is_desktop,
                   relayVars>>

\* A timeout that closes the caller and leaves its pending entry.
PairingTimeout_keeps_entry(c) ==
    /\ pc[c] = "pairing_wait"
    /\ wsOpen[c]
    /\ pc' = [pc EXCEPT ![c] = "done"]
    /\ wsOpen' = [wsOpen EXCEPT ![c] = FALSE]
    /\ close_code' = [close_code EXCEPT ![c] = 4008]
    /\ UNCHANGED <<hubVars, agentVars, supVars,
                   authVars, first, device_id, is_desktop, relayVars>>

\* relay.py:236-239: PAIRING_WAIT_SECONDS passed.
PairingTimeout(c) ==
    /\ pc[c] = "pairing_wait"
    /\ wsOpen[c]
    /\ _pairing_pending' = [_pairing_pending EXCEPT ![request_id_of(c)] = NoConn]
    /\ pc' = [pc EXCEPT ![c] = "done"]
    /\ wsOpen' = [wsOpen EXCEPT ![c] = FALSE]
    /\ close_code' = [close_code EXCEPT ![c] = 4008]
    /\ UNCHANGED <<hubVars, agentVars, supVars,
                   authVars, first, device_id, is_desktop, _registry,
                   lockVars, _desktop_ws, cur, recipients, nrecv, inbox>>

\* How the first frame m fared, a being _authenticate_connection's answer:
\* "passed" when handle_connection goes on to register, else "rejected".
FirstKind(m, a) ==
    IF m.type = "auth_response" /\ ~a.raised /\ a.ok /\ ~Missing(a.device_id)
    THEN "passed" ELSE "rejected"

\* relay.py:293 and 116-118: the auth_response the handler works on.  nonce
\* is not on the wire: it is the nonce the signature the Gateway verifies was
\* made for, 0 when the frame carries no signature.
first_msg(m) ==
    [M0 EXCEPT !.type = m.type,
               !.nonce = IF m.nonce_signature # NoSig
                         THEN m.nonce_signature.msg.nonce
                         ELSE m.signature.msg.nonce]

\* relay.py:308-317: authentication of the first frame, auth_ok, and the
\* desktop slot.  A handler that passed goes on to register().
Authenticate(c, FF) ==
    \E m \in {f \in FF : f.json = "object" /\ f.type # "pairing_request"} :
        LET a == _authenticate_connection(desktop_public_key, now,
                                          generate_nonce(c), m)
        IN
        /\ pc[c] = "await_first"
        /\ wsOpen[c]
        /\ desktop_public_key' = a.key
        /\ first' = [first EXCEPT ![c] = FirstKind(m, a)]
        /\ cur' = [cur EXCEPT ![c] = first_msg(m)]
        /\ IF a.raised
           THEN \* the handler ends with the exception; the server closes
                \* the connection with 1011
                /\ pc' = [pc EXCEPT ![c] = "done"]
                /\ wsOpen' = [wsOpen EXCEPT ![c] = FALSE]
                /\ close_code' = [close_code EXCEPT ![c] = 1011]
                /\ UNCHANGED <<device_id, is_desktop, _desktop_ws, inbox>>
           ELSE IF ~a.ok \/ Missing(a.device_id)
           THEN /\ pc' = [pc EXCEPT ![c] = "done"]
                /\ wsOpen' = [wsOpen EXCEPT ![c] = FALSE]
                /\ close_code' = [close_code EXCEPT ![c] = 4003]
                /\ UNCHANGED <<device_id, is_desktop, _desktop_ws, inbox>>
           ELSE /\ pc' = [pc EXCEPT ![c] = "authed"]
                /\ device_id' = [device_id EXCEPT ![c] = a.device_id]
                /\ is_desktop' = [is_desktop EXCEPT ![c] = (a.role = "desktop")]
                /\ inbox' = Sent(c, [M0 EXCEPT !.type = "auth_ok",
                                               !.device_id = a.device_id])
                /\ _desktop_ws' = IF a.role = "desktop" THEN c ELSE _desktop_ws
                /\ UNCHANGED <<wsOpen, close_code>>
        /\ UNCHANGED <<hubVars, agentVars, supVars,
                       now, last, _registry, lockVars, _pairing_pending,
                       recipients, nrecv>>

\* asyncio.Lock, for _registry_lock (relay.py:37): acquire() returns at once
\* when the lock is free and nobody waits for it, and else waits its turn;
\* release() hands the lock to the waiters in the order they came.
LockFree == _registry_lock = NoConn /\ lock_waiters = <<>>
Granted(c) ==
    /\ _registry_lock = NoConn
    /\ lock_waiters # <<>>
    /\ Head(lock_waiters) = c
Waiting(c) == Append(lock_waiters, c)

\* Frames of c that came in before the Gateway's close frame went out are
\* still read while register() waits for the close to complete.
BeingReplaced(c) ==
    /\ _registry_lock # NoConn
    /\ _registry[device_id[_registry_lock]] = c
CanRecv(c) == wsOpen[c] \/ BeingReplaced(c)

\* register, relay.py:53-63 (called at relay.py:319): from the lock to the
\* assignment or, when an open connection holds the id, to the wait for
\* old_ws.close().
register_without_close(c) ==
    /\ pc[c] \in {"authed", "register_lock"}
    /\ IF pc[c] = "authed" /\ ~LockFree
       THEN /\ lock_waiters' = Waiting(c)
            /\ pc' = [pc EXCEPT ![c] = "register_lock"]
            /\ UNCHANGED <<_registry, _registry_lock>>
       ELSE /\ pc[c] = "register_lock" => Granted(c)
            /\ lock_waiters' = IF pc[c] = "register_lock"
                               THEN Tail(lock_waiters) ELSE lock_waiters
            /\ _registry' = [_registry EXCEPT ![device_id[c]] = c]
            /\ pc' = [pc EXCEPT ![c] = "running"]
            /\ UNCHANGED _registry_lock
    /\ UNCHANGED <<hubVars, agentVars, supVars,
                   authVars, wsOpen, close_code, first, device_id, is_desktop,
                   _desktop_ws, _pairing_pending, cur, recipients, nrecv, inbox>>

register(c) ==
    LET old_ws == _registry[device_id[c]] IN
    /\ pc[c] \in {"authed", "register_lock"}
    /\ IF pc[c] = "authed" /\ ~LockFree
       THEN /\ lock_waiters' = Waiting(c)
            /\ pc' = [pc EXCEPT ![c] = "register_lock"]
            /\ UNCHANGED <<wsOpen, close_code, _registry, _registry_lock>>
       ELSE /\ pc[c] = "register_lock" => Granted(c)
            /\ lock_waiters' = IF pc[c] = "register_lock"
                               THEN Tail(lock_waiters) ELSE lock_waiters
            /\ IF old_ws # NoConn /\ wsOpen[old_ws]
               THEN /\ wsOpen' = [wsOpen EXCEPT ![old_ws] = FALSE]
                    /\ close_code' = [close_code EXCEPT ![old_ws] = 4000]
                    /\ _registry_lock' = c
                    /\ pc' = [pc EXCEPT ![c] = "register_close"]
                    /\ UNCHANGED _registry
               ELSE /\ _registry' = [_registry EXCEPT ![device_id[c]] = c]
                    /\ pc' = [pc EXCEPT ![c] = "running"]
                    /\ UNCHANGED <<wsOpen, close_code, _registry_lock>>
    /\ UNCHANGED <<hubVars, agentVars, supVars,
                   authVars, first, device_id, is_desktop, _desktop_ws,
                   _pairing_pending, cur, recipients, nrecv, inbox>>

\* relay.py:62-63: old_ws.close() has returned; the assignment, and the
\* lock is released.
register_assign(c) ==
    /\ pc[c] = "register_close"
    /\ _registry' = [_registry EXCEPT ![device_id[c]] = c]
    /\ _registry_lock' = NoConn
    /\ pc' = [pc EXCEPT ![c] = "running"]
    /\ UNCHANGED <<hubVars, agentVars, supVars,
                   authVars, wsOpen, close_code, first, device_id, is_desktop,
                   lock_waiters, _desktop_ws, _pairing_pending, cur,
                   recipients, nrecv, inbox>>

\* relay.py:321 and relay_message, relay.py:73-77: a frame that is not JSON
\* is ignored.
RecvNonJson(c, quota) ==
    /\ pc[c] = "running"
    /\ CanRecv(c)
    /\ quota
    /\ nrecv' = [nrecv EXCEPT ![c] = @ + 1]
    /\ UNCHANGED <<hubVars, agentVars, supVars,
                   authVars, connVars, _registry, lockVars, _desktop_ws,
                   _pairing_pending, cur, recipients, inbox>>

\* _unregister_desktop_ws, relay.py:191-195 (called at relay.py:334-335).
_unregister_desktop_ws(c) ==
    IF is_desktop[c] /\ _desktop_ws = c THEN NoConn ELSE _desktop_ws

\* unregister, relay.py:66-69, under the lock; the handler ends.  A handler
\* that ends by an exception leaves an open connection, which the server
\* closes with 1011; one that returns has it closed with 1000.
unregister(c, code) ==
    /\ _registry' = [_registry EXCEPT ![device_id[c]] = NoConn]
    /\ pc' = [pc EXCEPT ![c] = "done"]
    /\ wsOpen' = [wsOpen EXCEPT ![c] = FALSE]
    /\ close_code' = [close_code EXCEPT ![c] = IF wsOpen[c] THEN code ELSE @]

\* The finally clause of handle_connection, relay.py:333-336, up to the end
\* of the handler or to the wait for the registry lock.
Finally(c, code) ==
    /\ _desktop_ws' = _unregister_desktop_ws(c)
    /\ IF LockFree
       THEN unregister(c, code) /\ UNCHANGED lock_waiters
       ELSE /\ lock_waiters' = Waiting(c)
            /\ pc' = [pc EXCEPT ![c] = IF code = 1000 THEN "unregister_return"
                                        ELSE "unregister"]
            /\ UNCHANGED <<_registry, wsOpen, close_code>>

\* relay.py:336: unregister() gets the lock it waited for.
UnregisterGranted(c) ==
    /\ pc[c] \in {"unregister", "unregister_return"}
    /\ Granted(c)
    /\ lock_waiters' = Tail(lock_waiters)
    /\ unregister(c, IF pc[c] = "unregister" THEN 1011 ELSE 1000)
    /\ UNCHANGED <<hubVars, agentVars, supVars,
                   authVars, first, device_id, is_desktop, _registry_lock,
                   _desktop_ws, _pairing_pending, cur, recipients, nrecv, inbox>>

\* relay.py:321 and relay.py:79: a JSON frame that is no object makes
\* msg["sender_device_id"] = ... raise TypeError; handle_connection leaves
\* its loop through the finally clause.
RecvNonObject(c, quota) ==
    /\ pc[c] = "running"
    /\ CanRecv(c)
    /\ quota
    /\ nrecv' = [nrecv EXCEPT ![c] = @ + 1]
    /\ Finally(c, 1011)
    /\ UNCHANGED <<hubVars, agentVars, supVars,
                   authVars, first, device_id, is_desktop, _registry_lock,
                   _pairing_pending, cur, recipients, inbox>>

\* A handler that treats the pairing_response of any connection as the
\* desktop's.
handles_pairing_response_of_any(c) == TRUE
\* relay.py:322: only the handler of a connection that authenticated with
\* role desktop looks for pairing_response frames.
handles_pairing_response(c) == is_desktop[c]

\* relay.py:79-81: the frame relay_message sends on.
stamp_if_missing(sender_id, f) ==
    [M0 EXCEPT !.type = f.type, !.relayed = TRUE,
               !.sender_device_id = IF f.sender_device_id = Absent
                                    THEN sender_id ELSE f.sender_device_id,
               !.target_device_id = f.target_device_id,
               !.request_id = f.request_id, !.status = f.status]

stamp(sender_id, f) ==
    [M0 EXCEPT !.type = f.type, !.relayed = TRUE,
               !.sender_device_id = sender_id,
               !.target_device_id = f.target_device_id,
               !.request_id = f.request_id, !.status = f.status]

\* relay.py:83-97: the connections relay_message sends to; none when the
\* frame is dropped.
recipients_with_sender(registry, sender_id, target_id) ==
    IF Truthy(target_id)
    THEN IF target_id \in DeviceIds /\ registry[target_id] # NoConn
         THEN {registry[target_id]}
         ELSE {}
    ELSE {registry[did] : did \in {d \in DeviceIds : registry[d] # NoConn}}

recipients_ignore_target(registry, sender_id, target_id) ==
    {registry[did] :
        did \in {d \in DeviceIds : registry[d] # NoConn /\ d # sender_id}}

relay_recipients(registry, sender_id, target_id) ==
    IF Truthy(target_id)
    THEN IF target_id \in DeviceIds /\ registry[target_id] # NoConn
         THEN {registry[target_id]}
         ELSE {}
    ELSE {registry[did] :
            did \in {d \in DeviceIds : registry[d] # NoConn /\ d # sender_id}}

\* relay_message, relay.py:83-97, under the registry lock, for the frame out
\* of handler c.
relay_locked(c, out) ==
    /\ recipients' = [recipients EXCEPT
                        ![c] = relay_recipients(_registry, device_id[c],
                                                out.target_device_id)]
    /\ cur' = [cur EXCEPT ![c] = out]
    /\ pc' = [pc EXCEPT ![c] = "sending"]

\* relay.py:321-330 and relay_message, relay.py:72-97: a JSON object that
\* is not a desktop's pairing_response is stamped, and the recipients are
\* looked up under the registry lock, at once or after a wait for it.
RecvRelay(c, CF, quota) ==
    \E f \in {g \in CF :
                /\ g.json = "object"
                /\ ~(handles_pairing_response(c)
                        /\ g.type = "pairing_response")} :
        LET out == [stamp(device_id[c], f) EXCEPT
                       !.from = c, !.seq = nrecv[c] + 1,
                       !.claimed = f.sender_device_id]
        IN
        /\ pc[c] = "running"
        /\ CanRecv(c)
        /\ quota
        /\ nrecv' = [nrecv EXCEPT ![c] = @ + 1]
        /\ IF LockFree
           THEN relay_locked(c, out) /\ UNCHANGED lock_waiters
           ELSE /\ lock_waiters' = Waiting(c)
                /\ cur' = [cur EXCEPT ![c] = out]
                /\ pc' = [pc EXCEPT ![c] = "relay_lock"]
                /\ UNCHANGED recipients
        /\ UNCHANGED <<hubVars, agentVars, supVars,
                       authVars, wsOpen, close_code, first, device_id,
                       is_desktop, _registry, _registry_lock, _desktop_ws,
                       _pairing_pending, inbox>>

\* relay_message, relay.py:83: the handler gets the lock it waited for.
relay_lookup(c) ==
    /\ pc[c] = "relay_lock"
    /\ Granted(c)
    /\ lock_waiters' = Tail(lock_waiters)
    /\ relay_locked(c, cur[c])
    /\ UNCHANGED <<hubVars, agentVars, supVars,
                   authVars, wsOpen, close_code, first, device_id, is_desktop,
                   _registry, _registry_lock, _desktop_ws, _pairing_pending,
                   nrecv, inbox>>

\* relay_message, relay.py:86-92 and 99: the frame is dropped, or nobody
\* else is registered.
relay_dropped(c) ==
    /\ pc[c] = "sending"
    /\ recipients[c] = {}
    /\ pc' = [pc EXCEPT ![c] = "running"]
    /\ cur' = [cur EXCEPT ![c] = M0]
    /\ UNCHANGED <<hubVars, agentVars, supVars,
                   authVars, wsOpen, close_code, first, device_id, is_desktop,
                   _registry, lockVars, _desktop_ws, _pairing_pending,
                   recipients, nrecv, inbox>>

\* relay_message, relay.py:99-104: one ws.send of the loop.  The code sends
\* in the registry's insertion order; here in any order.
relay_send(c) ==
    \E r \in recipients[c] :
        /\ pc[c] = "sending"
        /\ inbox' = IF wsOpen[r] THEN Sent(r, cur[c]) ELSE inbox
        /\ recipients' = [recipients EXCEPT ![c] = @ \ {r}]
        /\ IF recipients[c] = {r}
           THEN /\ pc' = [pc EXCEPT ![c] = "running"]
                /\ cur' = [cur EXCEPT ![c] = M0]
           ELSE UNCHANGED <<pc, cur>>
        /\ UNCHANGED <<hubVars, agentVars, supVars,
                       authVars, wsOpen, close_code, first, device_id,
                       is_desktop, _registry, lockVars, _desktop_ws,
                       _pairing_pending, nrecv>>

\* relay.py:258-271: what the Gateway forwards to the pairing caller.
pairing_outbound(f) ==
    IF f.status = "approved"
    THEN [M0 EXCEPT !.type = "pairing_response", !.status = f.status,
                    !.attestation = f.attestation,
                    !.device_id = IF Missing(f.device_id) THEN Absent
                                  ELSE f.device_id]
    ELSE [M0 EXCEPT !.type = "pairing_response", !.status = f.status,
                    !.reason = IF Missing(f.reason) THEN "rejected"
                               ELSE f.reason]

\* relay.py:322-329 and _handle_pairing_response_from_desktop,
\* relay.py:242-276.
_handle_pairing_response_from_desktop(c, CF, quota) ==
    \E f \in {g \in CF : g.type = "pairing_response"} :
        LET pending_ws == IF f.request_id \in Conns
                          THEN _pairing_pending[f.request_id] ELSE NoConn
            valid == f.request_id # 0 /\ f.status \in {"approved", "rejected"}
        IN
        /\ pc[c] = "running"
        /\ CanRecv(c)
        /\ handles_pairing_response(c)
        /\ quota
        /\ nrecv' = [nrecv EXCEPT ![c] = @ + 1]
        /\ cur' = [cur EXCEPT ![c] =
                     [M0 EXCEPT !.type = "pairing_response",
                                !.from = c, !.seq = nrecv[c] + 1,
                                !.request_id = f.request_id,
                                !.status = f.status]]
        /\ IF ~valid \/ pending_ws = NoConn
           THEN UNCHANGED <<pc, wsOpen, close_code, _registry, lock_waiters,
                            _desktop_ws, _pairing_pending, inbox>>
           ELSE /\ _pairing_pending' =
                       [_pairing_pending EXCEPT ![f.request_id] = NoConn]
                /\ IF wsOpen[pending_ws]
                   THEN /\ inbox' = Sent(pending_ws, pairing_outbound(f))
                        /\ wsOpen' = [wsOpen EXCEPT ![pending_ws] = FALSE]
                        /\ close_code' = [close_code EXCEPT ![pending_ws] = 1000]
                        /\ UNCHANGED <<pc, _registry, lock_waiters, _desktop_ws>>
                   ELSE \* pending_ws.send raises ConnectionClosed, which
                        \* ends the desktop's loop (relay.py:331-336)
                        /\ Finally(c, 1000)
                        /\ UNCHANGED inbox
        /\ UNCHANGED <<hubVars, agentVars, supVars,
                       authVars, first, device_id, is_desktop, _registry_lock,
                       recipients>>

\* relay.py:321, 331-336: the connection is closed; the loop ends.
LoopClosed(c) ==
    /\ pc[c] = "running"
    /\ ~wsOpen[c]
    /\ Finally(c, 1000)
    /\ UNCHANGED <<hubVars, agentVars, supVars,
                   authVars, first, device_id, is_desktop, _registry_lock,
                   _pairing_pending, cur, recipients, nrecv, inbox>>

(***************************************************************************)
(* Spec: the relay between peers that authenticate.  The desktop has       *)
(* claimed the Gateway with K1; clients send an auth_response first.       *)
(***************************************************************************)
RelayFirstFrames(n) ==
    {DesktopClaim("hub", "K1", Sign("K1", NonceMsg(n))),
     DeviceAuth("object", "{d1,KD1,t2}", Sign("K1", BlobMsg("{d1,KD1,t2}")),
                Sign("KD1", NonceMsg(n))),
     DeviceAuth("object", "{d2,KD2,t2}", Sign("K1", BlobMsg("{d2,KD2,t2}")),
                Sign("KD2", NonceMsg(n))),
     DeviceAuth("object", "{d1,KD1,t1}", Sign("K1", BlobMsg("{d1,KD1,t1}")),
                Sign("KD1", NonceMsg(n))),
     [F0 EXCEPT !.json = "invalid"]}

Init ==
    /\ desktop_public_key = "K1"
    /\ now = 1
    /\ last = NoCall
    /\ GatewayInit
    /\ HubInit
    /\ AgentInit
    /\ SupInit

Relay(c) ==
    \/ Accept(c, MaxLive)
    \/ AuthTimeout(c)
    \/ FirstRecvClosed(c)
    \/ FirstFrameInvalid(c, RelayFirstFrames(generate_nonce(c)))
    \/ Authenticate(c, RelayFirstFrames(generate_nonce(c)))
    \/ register(c)
    \/ register_assign(c)
    \/ RecvNonJson(c, FramesRead < MaxFrames)
    \/ RecvNonObject(c, FramesRead < MaxFrames)
    \/ RecvRelay(c, RelayFrames, FramesRead < MaxFrames)
    \/ relay_lookup(c)
    \/ relay_dropped(c)
    \/ relay_send(c)
    \/ LoopClosed(c)
    \/ UnregisterGranted(c)
    \/ PeerClose(c)

Next == \E c \in Conns : Relay(c)

Spec == Init /\ [][Next]_vars

(***************************************************************************)
(* SpecOrder: every connection is live at once; connection c authenticates *)
(* as device c of DeviceOf and stays connected, and the clients send       *)
(* MaxFrames + 1 frames in all, to all or to "d1".                         *)
(***************************************************************************)
DeviceOf(c) == IF c = 1 THEN "d1" ELSE IF c = 2 THEN "d2" ELSE "hub"
OrderFirstFrames(c) ==
    IF DeviceOf(c) = "hub"
    THEN {DesktopClaim("hub", "K1", Sign("K1", NonceMsg(generate_nonce(c))))}
    ELSE LET b == IF c = 1 THEN "{d1,KD1,t2}" ELSE "{d2,KD2,t2}" IN
         {DeviceAuth("object", b, Sign("K1", BlobMsg(b)),
                     Sign(IF c = 1 THEN "KD1" ELSE "KD2",
                          NonceMsg(generate_nonce(c))))}
OrderFrames == {[C0 EXCEPT !.target_device_id = t] : t \in {Absent, "d1"}}

OrderNext ==
    \E c \in Conns :
        \/ Accept(c, MaxConns)
        \/ Authenticate(c, OrderFirstFrames(c))
        \/ register(c)
        \/ RecvRelay(c, OrderFrames, FramesRead <= MaxFrames)
        \/ relay_dropped(c)
        \/ relay_send(c)

SpecOrder == Init /\ [][OrderNext]_vars

(***************************************************************************)
(* SpecHandshake: any first frame, the pairing bridge, the desktop's       *)
(* pairing responses.                                                      *)
(***************************************************************************)
HandshakeInit ==
    /\ desktop_public_key \in {Absent, "K1"}
    /\ now = 1
    /\ last = NoCall
    /\ GatewayInit
    /\ HubInit
    /\ AgentInit
    /\ SupInit

Handshake(c) ==
    \/ Accept(c, MaxLive)
    \/ AuthTimeout(c)
    \/ FirstRecvClosed(c)
    \/ FirstFrameInvalid(c, FirstFrames(generate_nonce(c)))
    \/ _forward_pairing_request(c, FirstFrames(generate_nonce(c)))
    \/ PairingWaitClosed(c)
    \/ PairingTimeout(c)
    \/ Authenticate(c, FirstFrames(generate_nonce(c)))
    \/ register(c)
    \/ register_assign(c)
    \/ RecvNonJson(c, FramesRead < MaxHandshakeFrames)
    \/ RecvNonObject(c, FramesRead < MaxHandshakeFrames)
    \/ RecvRelay(c, {C0} \cup DevicePairingResponses,
                 FramesRead < MaxHandshakeFrames)
    \/ relay_lookup(c)
    \/ relay_dropped(c)
    \/ relay_send(c)
    \/ _handle_pairing_response_from_desktop(c, PairingResponses,
                                             FramesRead < MaxHandshakeFrames)
    \/ LoopClosed(c)
    \/ UnregisterGranted(c)
    \/ PeerClose(c)

HandshakeNext == \E c \in Conns : Handshake(c)

SpecHandshake == HandshakeInit /\ [][HandshakeNext]_vars

(***************************************************************************)
(* The auth store on its own: any sequence of calls with any arguments.    *)
(***************************************************************************)
\* auth.py:55-69: the store starts unclaimed, or claimed from the state file
\* or the --desktop-pubkey option.
AuthInit ==
    /\ desktop_public_key \in {Absent} \cup DesktopKeys
    /\ now = 0
    /\ last = NoCall
    /\ GatewayInit
    /\ HubInit
    /\ AgentInit
    /\ SupInit

CallDesktopClaim ==
    \E n \in Nonces, pk \in PubKeyStrs : \E sig \in NonceSigs(n, DesktopKeys) :
        LET r == verify_desktop_claim(desktop_public_key, n, pk, sig) IN
        /\ desktop_public_key' = r.key
        /\ last' = [NoCall EXCEPT !.op = "desktop_claim", !.nonce = n,
                        !.public_key = pk, !.signature = sig,
                        !.before = desktop_public_key, !.at = now,
                        !.result = r.result]
        /\ UNCHANGED <<hubVars, agentVars, supVars, now, connVars, relayVars>>

CallDesktopAuth ==
    \E n \in Nonces : \E sig \in NonceSigs(n, DesktopKeys) :
        /\ last' = [NoCall EXCEPT !.op = "desktop", !.nonce = n,
                        !.signature = sig,
                        !.before = desktop_public_key, !.at = now,
                        !.result = verify_desktop_auth(desktop_public_key, n, sig)]
        /\ UNCHANGED <<hubVars, agentVars, supVars,
                       desktop_public_key, now, connVars, relayVars>>

CallDeviceAuth ==
    \E n \in Nonces, b \in ClientBlobs :
      \E dsig \in BlobSigs(b), sig \in NonceSigs(n, DeviceKeys) :
        /\ last' = [NoCall EXCEPT !.op = "device", !.nonce = n, !.blob = b,
                        !.desktop_signature = dsig, !.signature = sig,
                        !.before = desktop_public_key, !.at = now,
                        !.result = verify_device_auth(desktop_public_key, now,
                                                      n, b, dsig, sig)]
        /\ UNCHANGED <<hubVars, agentVars, supVars,
                       desktop_public_key, now, connVars, relayVars>>

\* A device presents the signature of an attestation the Hub has issued,
\* beside the blob of the attestation or beside any other blob, and signs
\* the nonce of its connection with its key.
CallDeviceAuthAttested ==
    \E n \in {generate_nonce(1)}, b \in BlobStrs, att \in Issued(now) :
      \E sig \in {Sign(dk, NonceMsg(n)) : dk \in DeviceKeys} :
        /\ last' = [NoCall EXCEPT !.op = "device", !.nonce = n, !.blob = b,
                        !.desktop_signature = att.desktop_signature,
                        !.signature = sig,
                        !.before = desktop_public_key, !.at = now,
                        !.result = verify_device_auth(desktop_public_key, now,
                                        n, b, att.desktop_signature, sig)]
        /\ UNCHANGED <<hubVars, agentVars, supVars,
                       desktop_public_key, now, connVars, relayVars>>

\* Time passes.
Tick ==
    /\ now < MaxTime
    /\ now' = now + 1
    /\ UNCHANGED <<hubVars, agentVars, supVars,
                   desktop_public_key, last, connVars, relayVars>>

AuthNext ==
    \/ CallDesktopClaim
    \/ CallDesktopAuth
    \/ CallDeviceAuth
    \/ CallDeviceAuthAttested
    \/ Tick

SpecAuth == AuthInit /\ [][AuthNext]_vars

(***************************************************************************)
(* The Hub: the pairing session, the pairing controller of                 *)
(* _server_process.py and the devices channel plugin.                      *)
(***************************************************************************)
MaxSessions == 2
MaxAnswers == 2
SessionCodes == {"135246", "000000"}
\* pairing.py:54-56: ttl_seconds > 0.
TtlSeconds == {1, 2}
NonDict == "<non-dict>"
IsDict(v) == v \notin {Absent, Null, NonDict, ""}
\* device_id = f"mobile-{uuid.uuid4().hex[:12]}" (_server_process.py:150), and
\* the attestation made for it (crypto.py create_device_attestation).
MobileIds == <<"mobile-1", "mobile-2", "mobile-3", "mobile-4">>
Attestations == <<"attestation-1", "attestation-2", "attestation-3", "attestation-4">>

\* pairing.py:22-30.
expires_at(s) == s.created_at + s.ttl_seconds
is_valid(s, t) == t < expires_at(s)

\* pairing.py:54-61 and 80-85: a new session replaces pairing_session.json.
create_pairing_session ==
    \E code \in SessionCodes, ttl \in TtlSeconds :
        /\ nsessions < MaxSessions
        /\ nsessions' = nsessions + 1
        /\ session' = [sid |-> nsessions + 1, code |-> code,
                       created_at |-> now, ttl_seconds |-> ttl]
        /\ UNCHANGED <<authVars, connVars, relayVars, approved_devices,
                       hub_sent, dispatched, rpc_in, _event_callback,
                       plugin_read, plugin_out, agentVars, supVars>>

\* pairing.py:64-77: the session load_pairing_session returns at time t, and
\* the file it leaves (an expired session is cleared).
load_pairing_session(t) ==
    IF session = NoSession \/ ~is_valid(session, t) THEN NoSession ELSE session

\* A pairing_request event: the data the controller is called with.
E0 == [request_id |-> 0, pairing_code |-> Absent, device_public_key |-> Absent]
PairingEvents ==
    {[E0 EXCEPT !.request_id = r, !.pairing_code = code,
                !.device_public_key = k] :
        r \in {0, 2}, code \in SessionCodes \cup {Absent, ""},
        k \in {"KD1", Absent}}

\* A pairing_response event.  code, key, sid and at are not part of the
\* event: they record the request's pairing_code and device_public_key, the
\* session it was compared with and the time read at line 138.
R0 ==
    [request_id |-> 0, status |-> Absent, reason |-> Absent,
     device_id |-> Absent, attestation |-> Absent,
     code |-> Absent, key |-> Absent, sid |-> 0, at |-> 0]
Rejected(data, why, t) ==
    [R0 EXCEPT !.request_id = data.request_id, !.status = "rejected",
               !.reason = why, !.code = data.pairing_code,
               !.key = data.device_public_key, !.at = t]

\* PluginManager.send_event_to_channel("devices", "pairing_response", data):
\* a channel.event notification to the devices plugin.
send_event_to_channel(data) == Append(hub_sent, data)

\* The controller that accepts any pairing code while a session is active.
session_matches_any_code(s, code) == TRUE
\* _server_process.py:138.
session_matches(s, code) == s.code = code

\* The controller that keeps the session after an approval.
clear_pairing_session_kept(s) == s
\* pairing.py:88-92.
clear_pairing_session(s) == NoSession

\* _on_channel_event, _server_process.py:94-187, called with a
\* pairing_request event.  The clock is read by load_pairing_session and
\* again by session.is_valid (line 138).
_on_channel_event ==
    \E data \in PairingEvents, t \in {now, now + 1} :
        LET loaded == load_pairing_session(now)
            n == Len(approved_devices) + 1
        IN
        /\ t <= MaxTime
        /\ Len(hub_sent) < MaxAnswers
        /\ IF data.request_id = 0
           THEN UNCHANGED <<now, session, approved_devices, hub_sent>>
           ELSE IF Missing(data.pairing_code)
           THEN /\ hub_sent' = send_event_to_channel(
                                   Rejected(data, "invalid_pairing_code", now))
                /\ UNCHANGED <<now, session, approved_devices>>
           ELSE IF Missing(data.device_public_key)
           THEN /\ hub_sent' = send_event_to_channel(
                         Rejected(data, "invalid_device_public_key", now))
                /\ UNCHANGED <<now, session, approved_devices>>
           ELSE IF loaded = NoSession
           THEN /\ session' = NoSession
                /\ hub_sent' = send_event_to_channel(
                         Rejected(data, "no_active_pairing_session", now))
                /\ UNCHANGED <<now, approved_devices>>
           ELSE IF ~is_valid(loaded, t)
                   \/ ~session_matches(loaded, data.pairing_code)
           THEN /\ now' = t
                /\ hub_sent' = send_event_to_channel(
                         [Rejected(data, "pairing_code_invalid_or_expired", t)
                              EXCEPT !.sid = loaded.sid])
                /\ UNCHANGED <<session, approved_devices>>
           ELSE /\ now' = t
                /\ approved_devices' =
                       Append(approved_devices,
                              [device_id |-> MobileIds[n],
                               device_public_key |-> data.device_public_key,
                               paired_at |-> t])
                /\ session' = clear_pairing_session(session)
                /\ hub_sent' = send_event_to_channel(
                         [R0 EXCEPT !.request_id = data.request_id,
                                    !.status = "approved",
                                    !.device_id = MobileIds[n],
                                    !.attestation = Attestations[n],
                                    !.code = data.pairing_code,
                                    !.key = data.device_public_key,
                                    !.sid = loaded.sid, !.at = t])
        /\ UNCHANGED <<desktop_public_key, last, connVars, relayVars,
                       nsessions, dispatched, rpc_in, _event_callback,
                       plugin_read, plugin_out, agentVars, supVars>>

\* PluginTransport._dispatch, transport.py:146-188, on the next notification
\* of the Hub: channel.event is none of its methods, and a notification has
\* no id to answer.
_dispatch ==
    /\ dispatched < Len(hub_sent)
    /\ dispatched' = dispatched + 1
    /\ UNCHANGED <<authVars, connVars, relayVars, session, nsessions,
                   approved_devices, hub_sent, rpc_in, _event_callback,
                   plugin_read, plugin_out, agentVars, supVars>>

\* The devices plugin is the first client of the Gateway (plugin.py:151-153).
PluginConn == 1
MaxPluginOut == 1
\* Frames 1 and 2 on the plugin's connection are the auth_challenge and the
\* auth_ok that _authenticate_with_gateway reads (plugin.py:178, 203).
HandshakeFrames == 2

\* DevicesChannel._gateway_ws, plugin.py:155 and 167-168: set once auth_ok is
\* read, None again when the receive loop has ended.
_gateway_ws ==
    IF /\ plugin_read >= HandshakeFrames
       /\ wsOpen[PluginConn] \/ plugin_read < Len(inbox[PluginConn])
    THEN PluginConn ELSE NoConn

\* _authenticate_with_gateway, plugin.py:170-213: the plugin reads the
\* challenge and, after its auth_response, the auth_ok.
_authenticate_with_gateway ==
    /\ plugin_read < HandshakeFrames
    /\ plugin_read < Len(inbox[PluginConn])
    /\ inbox[PluginConn][plugin_read + 1].type =
           IF plugin_read = 0 THEN "auth_challenge" ELSE "auth_ok"
    /\ plugin_read' = plugin_read + 1
    /\ UNCHANGED <<authVars, connVars, relayVars, session, nsessions,
                   approved_devices, hub_sent, dispatched, rpc_in,
                   _event_callback, plugin_out, agentVars, supVars>>

\* A channel.event notification to the Hub.
ChannelEvent(event, data) == [method |-> "channel.event", event |-> event, data |-> data]

\* ChannelPlugin.emit_event, base.py:64-67.
emit_event(event, data) ==
    IF _event_callback = Null THEN rpc_in
    ELSE Append(rpc_in, ChannelEvent(event, data))

\* _handle_gateway_message and _handle_pairing_request, plugin.py:215-272,
\* on the next frame of the Gateway.  A frame of another type has no
\* payload here and is dropped (plugin.py:227-230).
_handle_gateway_message ==
    LET msg == inbox[PluginConn][plugin_read + 1] IN
    /\ plugin_read >= HandshakeFrames
    /\ plugin_read < Len(inbox[PluginConn])
    /\ plugin_read' = plugin_read + 1
    /\ rpc_in' =
         IF /\ msg.type = "pairing_request"
            /\ msg.request_id # 0
            /\ ~Missing(msg.pairing_code)
            /\ ~Missing(msg.device_public_key)
         THEN emit_event("pairing_request",
                         [E0 EXCEPT !.request_id = msg.request_id,
                                    !.pairing_code = msg.pairing_code,
                                    !.device_public_key = msg.device_public_key])
         ELSE rpc_in
    /\ UNCHANGED <<authVars, connVars, relayVars, session, nsessions,
                   approved_devices, hub_sent, dispatched, _event_callback,
                   plugin_out, agentVars, supVars>>

\* A plugin process sends a channel.event notification to the Hub.
channel_event_sent ==
    \E data \in {d \in PairingEvents : d.request_id # 0 /\ d.pairing_code = "135246" /\ d.device_public_key = "KD1"} :
        /\ rpc_in = <<>>
        /\ rpc_in' = <<ChannelEvent("pairing_request", data)>>
        /\ UNCHANGED <<authVars, connVars, relayVars, session, nsessions,
                       approved_devices, hub_sent, dispatched,
                       _event_callback, plugin_read, plugin_out, agentVars, supVars>>

\* PluginManager._handle_connection, plugin_manager.py:148-216, on a
\* channel.event notification: lines 195-201 log it.
_handle_connection ==
    /\ rpc_in # <<>>
    /\ Head(rpc_in).method = "channel.event"
    /\ rpc_in' = Tail(rpc_in)
    /\ UNCHANGED <<authVars, connVars, relayVars, session, nsessions,
                   approved_devices, hub_sent, dispatched, _event_callback,
                   plugin_read, plugin_out, agentVars, supVars>>

\* The frame on_event sends to the Gateway with the fields of a rejection
\* copied like those of an approval.
on_event_outbound_copies_all(data) ==
    [C0 EXCEPT !.type = "pairing_response", !.request_id = data.request_id,
               !.status = data.status, !.reason = data.reason,
               !.attestation = data.attestation, !.device_id = data.device_id]

\* plugin.py:291-305: the frame on_event sends to the Gateway.
on_event_outbound(data) ==
    IF data.status = "approved"
    THEN [C0 EXCEPT !.type = "pairing_response",
                    !.request_id = data.request_id, !.status = data.status,
                    !.attestation = IF IsDict(data.attestation)
                                    THEN data.attestation ELSE Absent,
                    !.device_id = IF Missing(data.device_id) THEN Absent
                                  ELSE data.device_id]
    ELSE [C0 EXCEPT !.type = "pairing_response",
                    !.request_id = data.request_id, !.status = data.status,
                    !.reason = IF Missing(data.reason) THEN "rejected"
                               ELSE data.reason]

\* The pairing_response events on_event is called with.
OnEventData ==
    {[R0 EXCEPT !.request_id = r, !.status = st, !.reason = why,
                !.device_id = d, !.attestation = a] :
        r \in {0, 2}, st \in {"approved", "rejected", "bogus"},
        why \in {Absent, "no"}, d \in {Absent, "mobile-1"},
        a \in {Absent, NonDict, "attestation-1"}}

\* DevicesChannel.on_event, plugin.py:274-307, called with a
\* pairing_response event.
on_event ==
    \E data \in OnEventData \cup {hub_sent[i] : i \in 1..Len(hub_sent)} :
        /\ Len(plugin_out) < MaxPluginOut
        /\ _gateway_ws # NoConn
        /\ data.request_id # 0
        /\ data.status \in {"approved", "rejected"}
        /\ wsOpen[_gateway_ws]
        /\ plugin_out' = Append(plugin_out, on_event_outbound(data))
        /\ UNCHANGED <<authVars, connVars, relayVars, session, nsessions,
                       approved_devices, hub_sent, dispatched, rpc_in,
                       _event_callback, plugin_read, agentVars, supVars>>

(***************************************************************************)
(* SpecHub: the pairing controller and the devices plugin, called with any *)
(* event; the plugin holds the desktop connection of the Gateway.          *)
(***************************************************************************)
PluginFirstFrames(n) == {DesktopClaim("hub", "K1", Sign("K1", NonceMsg(n)))}

HubSpecInit ==
    /\ desktop_public_key = Absent
    /\ now = 0
    /\ last = NoCall
    /\ GatewayInit
    /\ HubInit
    /\ AgentInit
    /\ SupInit

HubNext ==
    \/ Accept(PluginConn, MaxLive)
    \/ Authenticate(PluginConn, PluginFirstFrames(generate_nonce(PluginConn)))
    \/ register(PluginConn)
    \/ _authenticate_with_gateway
    \/ create_pairing_session
    \/ Tick
    \/ _on_channel_event
    \/ _dispatch
    \/ on_event

SpecHub == HubSpecInit /\ [][HubNext]_vars

(***************************************************************************)
(* SpecPairing: the pairing bridge end to end.  The devices plugin holds   *)
(* the desktop connection; the other clients send a pairing_request with   *)
(* a public key.  Nothing in the Hub calls _on_channel_event (the          *)
(* PluginManager logs channel.event, plugin_manager.py:195-201) and        *)
(* nothing in the plugin's transport calls on_event (transport.py:151-176),*)
(* so neither is a step here.  Every step of the code is taken if it stays *)
(* possible; clients and the user are free.                                *)
(***************************************************************************)
PairingFirstFrames(c) ==
    IF c = PluginConn THEN PluginFirstFrames(generate_nonce(c))
    ELSE {PairingRequest(code, "KD1") : code \in SessionCodes}

PairingInit == HubSpecInit

PairingNext ==
    \/ \E c \in Conns : Accept(c, MaxLive)
    \/ \E c \in Conns : Authenticate(c, PairingFirstFrames(c))
    \/ \E c \in Conns : register(c)
    \/ \E c \in Conns : _forward_pairing_request(c, PairingFirstFrames(c))
    \/ \E c \in Conns : PairingTimeout(c)
    \/ _authenticate_with_gateway
    \/ _handle_gateway_message
    \/ create_pairing_session
    \/ channel_event_sent
    \/ _handle_connection

PairingFairness ==
    /\ WF_vars(\E c \in Conns : Authenticate(c, PairingFirstFrames(c)))
    /\ WF_vars(\E c \in Conns : register(c))
    /\ WF_vars(\E c \in Conns : PairingTimeout(c))
    /\ WF_vars(_authenticate_with_gateway)
    /\ WF_vars(_handle_gateway_message)
    /\ WF_vars(_handle_connection)

SpecPairing == PairingInit /\ [][PairingNext]_vars /\ PairingFairness

(***************************************************************************)
(* SpecAgent: the message router's queues and the agent worker.            *)
(***************************************************************************)
MaxInbound == 3
ContentTypes == {"text", "image", "audio", "location", "command"}
\* The params of a channel.receive notification: a JSON object with or
\* without the required fields of a UnifiedMessage.
ReceiveParams ==
    [channel : {"devices", Absent}, direction : {"inbound", Absent},
     sender_id : {"alice", Null}, content_type : ContentTypes \cup {Absent}]
\* The validation of the pydantic model UnifiedMessage, models.py:12-31:
\* channel, direction and sender_id are required strings; None is no string.
validates(data) ==
    /\ data.channel \notin {Absent, Null}
    /\ data.direction \notin {Absent, Null}
    /\ data.sender_id \notin {Absent, Null}
\* UnifiedMessage.model_validate, models.py:12-31: content_type defaults to
\* "text".  id is the number of the message, in the order the Hub receives
\* them.
UnifiedMessage(data, id) ==
    [id |-> id, channel |-> data.channel, direction |-> data.direction,
     sender_id |-> data.sender_id,
     content_type |-> IF data.content_type = Absent THEN "text"
                      ELSE data.content_type]

\* A router that queues every params dict it is given.
receive_unvalidated(data) ==
    /\ nreceived' = nreceived + 1
    /\ data_received' = data
    /\ inbound_queue' = Append(inbound_queue, UnifiedMessage(data, nreceived + 1))
    /\ UNCHANGED <<outbound_queue, agent_msg, tasks_done, agent_running>>
\* CommunicationManager.receive, communication_manager.py:62-92, called
\* with data: what it does to the router and the agent worker.
receive(data) ==
    /\ nreceived' = nreceived + 1
    /\ data_received' = data
    /\ inbound_queue' =
          IF validates(data)
          THEN Append(inbound_queue, UnifiedMessage(data, nreceived + 1))
          ELSE inbound_queue
    /\ UNCHANGED <<outbound_queue, agent_msg, tasks_done, agent_running>>

\* PluginManager._handle_connection gives the params of a channel.receive
\* notification to the router (plugin_manager.py:184-187).
on_message ==
    \E data \in ReceiveParams :
        /\ nreceived < MaxInbound
        /\ receive(data)
        /\ UNCHANGED <<authVars, connVars, relayVars, hubVars, supVars>>

\* A worker that takes every message to the agent.
is_text_or_any(msg) == TRUE
\* agent_manager.py:130.
is_text(msg) == msg.content_type = "text"

\* AgentManager.run, agent_manager.py:127-138, from the get to the next
\* get or to the await of the agent.
run ==
    /\ agent_running
    /\ agent_msg = NoMsg
    /\ inbound_queue # <<>>
    /\ inbound_queue' = Tail(inbound_queue)
    /\ agent_msg' = IF is_text(Head(inbound_queue)) THEN Head(inbound_queue)
                    ELSE NoMsg
    /\ tasks_done' = IF is_text(Head(inbound_queue)) THEN tasks_done
                     ELSE tasks_done + 1
    /\ UNCHANGED <<authVars, connVars, relayVars, hubVars, supVars, outbound_queue,
                   nreceived, agent_running, data_received>>

\* _make_reply, agent_manager.py:43-54: the arguments it gives to the
\* constructor of UnifiedMessage.  reply_to is not one of them: it names
\* the inbound message the reply answers.
_make_reply(inbound, body) ==
    [channel |-> inbound.channel, direction |-> "outbound",
     sender_id |-> Null, recipient_id |-> inbound.sender_id,
     content_type |-> "text", body |-> body, reply_to |-> inbound]

\* AgentManager._process, agent_manager.py:98-117, and the finally of run,
\* agent_manager.py:137-138: the agent answers or raises, the reply is
\* built and put on the outbound queue.  When the constructor of the reply
\* raises ValidationError, _process and run end with it.
_process ==
    \E reply_body \in {"reply", "_FALLBACK_ERROR_BODY"} :
        LET reply == _make_reply(agent_msg, reply_body) IN
        /\ agent_running
        /\ agent_msg # NoMsg
        /\ outbound_queue' = IF validates(reply)
                             THEN Append(outbound_queue, reply)
                             ELSE outbound_queue
        /\ agent_running' = validates(reply)
        /\ agent_msg' = NoMsg
        /\ tasks_done' = tasks_done + 1
        /\ UNCHANGED <<authVars, connVars, relayVars, hubVars, supVars, inbound_queue,
                       nreceived, data_received>>

AgentNext == on_message \/ run \/ _process

SpecAgent == HubSpecInit /\ [][AgentNext]_vars

(***************************************************************************)
(* SpecReply: the way of a device's message to the agent and of the reply  *)
(* back.  The devices plugin turns a relayed frame of the Gateway into a   *)
(* UnifiedMessage (plugin.py:215-249), the transport and the supervisor    *)
(* hand its fields unchanged to the router (transport.py:105-108,          *)
(* plugin_manager.py:184-187), the agent worker answers, and the plugin    *)
(* turns the reply into a frame for the Gateway (plugin.py:116-126).       *)
(***************************************************************************)
\* The devices the Gateway relays frames of: relay_message stamps the
\* sender's id on every frame (relay.py:79-81).
Senders == {"d1", "d2"}

\* DevicesChannel._handle_gateway_message, plugin.py:226-249, on a frame
\* with this sender_device_id and payload: the UnifiedMessage it emits, or
\* NoData when the payload does not validate and the frame is dropped.
gateway_unified(sender_device_id, payload) ==
    IF validates(payload)
    THEN [payload EXCEPT
            !.sender_id = IF Truthy(sender_device_id)
                          THEN sender_device_id ELSE @,
            !.channel = "devices",
            !.direction = "inbound"]
    ELSE NoData

\* DevicesChannel.send, plugin.py:116-126, while the Gateway is connected:
\* the target_device_id of the frame it sends, Absent when it sets none.
send(message) ==
    [target_device_id |-> IF Truthy(message.recipient_id)
                          THEN message.recipient_id ELSE Absent]

\* The plugin reads a relayed frame of a device and emits its message,
\* which reaches CommunicationManager.receive.
gateway_message_received ==
    \E d \in Senders : \E payload \in ReceiveParams :
        /\ nreceived < MaxInbound
        /\ gateway_unified(d, payload) # NoData
        /\ receive(gateway_unified(d, payload))
        /\ UNCHANGED <<authVars, connVars, relayVars, hubVars, supVars>>

ReplyNext == gateway_message_received \/ run \/ _process

SpecReply == HubSpecInit /\ [][ReplyNext]_vars

(***************************************************************************)
(* The plugin supervisor (plugin_manager.py) and the outbound worker of    *)
(* the router (communication_manager.py).                                  *)
(***************************************************************************)
MaxPluginFrames == 3
MaxOutbound == 2

\* A frame of a plugin: text that is not JSON, JSON that is no object (a
\* number), or a JSON-RPC object: a notification channel.register,
\* channel.receive or channel.event, a call of an unknown method with or
\* without an id, or a response.
PF0 == [kind |-> "notjson", name |-> Absent, params |-> NoData, id |-> Null]
HookParams ==
    {p \in ReceiveParams : /\ p.content_type = "text"
                           /\ p.direction = "inbound"
                           /\ p.sender_id = "alice"}
PluginFrames ==
    {PF0, [PF0 EXCEPT !.kind = "nonobject"], [PF0 EXCEPT !.kind = "event"],
     [PF0 EXCEPT !.kind = "response"]}
      \cup {[PF0 EXCEPT !.kind = "register", !.name = n] :
                n \in ChannelNames \cup {Absent}}
      \cup {[PF0 EXCEPT !.kind = "receive", !.params = p] : p \in HookParams}
      \cup {[PF0 EXCEPT !.kind = "unknown", !.id = i] : i \in {Null, "7"}}

\* rpc.build_notification, rpc_helpers.py:13-17: what the supervisor sends
\* to a plugin.  id is the id of the UnifiedMessage of a channel.send; a
\* notification has no id of its own.
Notification(method, id) == [method |-> method, id |-> id, rpc_id |-> Null]
\* rpc.build_error, rpc_helpers.py:44-57: the error response to the request
\* with the id req_id; it has no method.
ErrorResponse(req_id) == [method |-> Absent, id |-> 0, rpc_id |-> req_id]

\* The plugin server listens from the start of PluginManager.run to the end
\* of its async with block (plugin_manager.py:67-75).
Listening == run_pc \in {"spawn", "serving", "sleeping"}

\* websockets.serve accepts a connection and starts _handle_connection
\* (plugin_manager.py:67-69); connections are numbered as they come.
PluginConnects(c) ==
    /\ Listening
    /\ plugin_ws[c] = "new"
    /\ IF c = 1 THEN TRUE ELSE plugin_ws[c - 1] # "new"
    /\ plugin_ws' = [plugin_ws EXCEPT ![c] = "open"]
    /\ UNCHANGED <<rpcVars, loopVars, authVars, connVars, relayVars, hubVars, agentVars,
                   _channels, channel_name, to_hub, to_plugin, nread,
                   nframes, workerVars, runVars, transportVars>>

\* A plugin sends a frame on its connection.
PluginSends(c) ==
    \E f \in PluginFrames :
        /\ plugin_ws[c] = "open"
        /\ to_hub[c] = <<>>
        /\ nframes < MaxPluginFrames
        /\ nframes' = nframes + 1
        /\ to_hub' = [to_hub EXCEPT ![c] = Append(@, f)]
        /\ UNCHANGED <<rpcVars, loopVars, authVars, connVars, relayVars, hubVars, agentVars,
                       _channels, channel_name, plugin_ws, to_plugin, nread,
                       workerVars, runVars, transportVars>>

\* A plugin closes its connection, or its process ends.
PluginCloses(c) ==
    /\ plugin_ws[c] = "open"
    /\ plugin_ws' = [plugin_ws EXCEPT ![c] = "closed"]
    /\ UNCHANGED <<rpcVars, loopVars, authVars, connVars, relayVars, hubVars, agentVars,
                   _channels, channel_name, to_hub, to_plugin, nread,
                   nframes, workerVars, runVars, transportVars>>

\* The finally clause of _handle_connection, plugin_manager.py:224-227,
\* of a handler whose channel_name is name.
_channels_finally(channels, name) ==
    IF name # Null /\ channels[name] # NoConn
    THEN [channels EXCEPT ![name] = NoConn]
    ELSE channels

\* One round of the loop of PluginManager._handle_connection,
\* plugin_manager.py:151-227, on the next frame of connection c.  cfg says
\* whether a configuration is stored for the channel (_push_config,
\* plugin_manager.py:245-250).  ws.send on a closed connection raises
\* ConnectionClosed; that, a KeyError (no params.name) and a TypeError
\* ("method" not in a number) end the handler through its finally clause.
_handle_connection_frame(c) ==
    \E cfg \in BOOLEAN :
      LET f == Head(to_hub[c])
          registers == f.kind = "register" /\ f.name # Absent
          name == IF registers THEN f.name ELSE channel_name[c]
          channels == IF registers THEN [_channels EXCEPT ![f.name] = c]
                      ELSE _channels
          sends == \/ registers /\ cfg
                   \/ f.kind = "unknown" /\ f.id # Null
          raises == \/ f.kind = "nonobject"
                    \/ f.kind = "register" /\ f.name = Absent
                    \/ sends /\ plugin_ws[c] # "open"
      IN
      /\ plugin_ws[c] \in {"open", "closed"}
      /\ to_hub[c] # <<>>
      /\ to_hub' = [to_hub EXCEPT ![c] = Tail(@)]
      /\ channel_name' = [channel_name EXCEPT ![c] = name]
      /\ _channels' = IF raises THEN _channels_finally(channels, name)
                      ELSE channels
      /\ plugin_ws' = [plugin_ws EXCEPT ![c] = IF raises THEN "done" ELSE @]
      /\ to_plugin' =
           IF sends /\ ~raises
           THEN [to_plugin EXCEPT ![c] =
                    ws_send(@, IF registers
                               THEN Notification("channel.configure", 0)
                               ELSE ErrorResponse(f.id))]
           ELSE to_plugin
      /\ IF f.kind = "receive"
         THEN receive(f.params)
         ELSE UNCHANGED agentVars
      /\ UNCHANGED <<rpcVars, loopVars, authVars, connVars, relayVars, hubVars, nread, nframes,
                     workerVars, runVars, transportVars>>

\* plugin_manager.py:151 and 218-227: the connection is closed and all its
\* frames are read; the handler ends.
_handle_connection_closed(c) ==
    /\ plugin_ws[c] = "closed"
    /\ to_hub[c] = <<>>
    /\ plugin_ws' = [plugin_ws EXCEPT ![c] = "done"]
    /\ _channels' = _channels_finally(_channels, channel_name[c])
    /\ UNCHANGED <<rpcVars, loopVars, authVars, connVars, relayVars, hubVars, agentVars,
                   channel_name, to_hub, to_plugin, nread, nframes,
                   workerVars, runVars, transportVars>>

\* An outbound UnifiedMessage; id is its number in the order of the calls
\* of enqueue_outbound.
OutboundMessage(id, channel) ==
    [id |-> id, channel |-> channel, direction |-> "outbound",
     sender_id |-> "hub", recipient_id |-> "alice", content_type |-> "text"]

\* CommunicationManager.enqueue_outbound, communication_manager.py:98-100,
\* called by any part of the Hub.
enqueue_outbound ==
    \E channel \in ChannelNames :
        /\ nenqueued < MaxOutbound
        /\ nenqueued' = nenqueued + 1
        /\ outbound_queue' =
              Append(outbound_queue, OutboundMessage(nenqueued + 1, channel))
        /\ UNCHANGED <<rpcVars, loopVars, authVars, connVars, relayVars, hubVars, inbound_queue,
                       agent_msg, nreceived, tasks_done, agent_running,
                       data_received, connsVars, outbound_running, handed,
                       dropped, runVars, transportVars>>

\* A queue that gives its newest item first.
queue_get_newest(q) == [item |-> q[Len(q)], rest |-> SubSeq(q, 1, Len(q) - 1)]
\* asyncio.Queue.get, communication_manager.py:105: the oldest item.
queue_get(q) == [item |-> Head(q), rest |-> Tail(q)]

\* A supervisor that keeps a message for a channel that is not connected.
undeliverable_requeued(q, msg) == Append(q, msg)
\* plugin_manager.py:260-265: send_to_channel returns; the message is gone.
undeliverable(q, msg) == q

\* One round of CommunicationManager._outbound_worker,
\* communication_manager.py:104-132, with PluginManager.send_to_channel,
\* plugin_manager.py:256-266.  ws.send on a closed connection raises
\* ConnectionClosed, which ends the worker.
_outbound_worker ==
    LET got == queue_get(outbound_queue)
        msg == got.item
        c == _channels[msg.channel]
    IN
    /\ outbound_running
    /\ outbound_queue # <<>>
    /\ handed' = Append(handed, msg.id)
    /\ IF c = NoConn
       THEN /\ outbound_queue' = undeliverable(got.rest, msg)
            /\ dropped' = dropped \cup {msg.id}
            /\ UNCHANGED <<to_plugin, outbound_running>>
       ELSE /\ outbound_queue' = got.rest
            /\ IF plugin_ws[c] = "open"
               THEN /\ to_plugin' = [to_plugin EXCEPT ![c] =
                           ws_send(@, Notification("channel.send", msg.id))]
                    /\ UNCHANGED outbound_running
               ELSE /\ outbound_running' = FALSE
                    /\ UNCHANGED to_plugin
            /\ UNCHANGED dropped
    /\ UNCHANGED <<rpcVars, loopVars, authVars, connVars, relayVars, hubVars, inbound_queue,
                   agent_msg, nreceived, tasks_done, agent_running,
                   data_received, _channels, channel_name, plugin_ws, to_hub,
                   nread, nframes, nenqueued, runVars, transportVars>>

(***************************************************************************)
(* SpecSupervisor: plugins connect to the supervisor and send any frames;  *)
(* the Hub enqueues outbound messages for the channels.                    *)
(***************************************************************************)
SupervisorNext ==
    \/ \E c \in PluginConns : PluginConnects(c)
    \/ \E c \in PluginConns : PluginSends(c)
    \/ \E c \in PluginConns : PluginCloses(c)
    \/ \E c \in PluginConns : _handle_connection_frame(c)
    \/ \E c \in PluginConns : _handle_connection_closed(c)
    \/ enqueue_outbound
    \/ _outbound_worker

SpecSupervisor == HubSpecInit /\ [][SupervisorNext]_vars

\* The outbound worker is a task of the event loop (_server_process.py:205-219):
\* it takes its next round whenever the queue holds a message.
SpecSupervisorLive == SpecSupervisor /\ WF_vars(_outbound_worker)

(***************************************************************************)
(* The life of the plugins: PluginManager.run spawns them and shuts them   *)
(* down (plugin_manager.py:65-142), _main cancels what is left             *)
(* (_server_process.py:224-229), and each plugin process runs             *)
(* PluginTransport.run (transport.py:48-121).  Time is counted in half     *)
(* seconds.                                                                *)
(***************************************************************************)
MaxShutdownTime == 4
\* asyncio.sleep(1), plugin_manager.py:136.
ShutdownSleep == 2
\* asyncio.sleep(1.5), _server_process.py:225.
CancelDelay == 3

\* _spawn_channels and _spawn_one, plugin_manager.py:83-125: Popen starts
\* the process of an enabled channel, or fails and is logged.
_spawn_channels ==
    \E spawned \in [ChannelNames -> {"running", "none"}] :
        /\ run_pc = "spawn"
        /\ run_pc' = "serving"
        /\ _subprocesses' = spawned
        /\ UNCHANGED <<rpcVars, loopVars, authVars, connVars, relayVars, hubVars, agentVars,
                       connsVars, workerVars, _stop_event, stop_at, wake_at,
                       cancelled, transportVars>>

\* The process of plugin n ends: its connection is closed with it.
process_ends(n) ==
    /\ transport_pc' = [transport_pc EXCEPT ![n] = "exited"]
    /\ plugin_ws' = IF _ws[n] # NoConn /\ plugin_ws[_ws[n]] = "open"
                    THEN [plugin_ws EXCEPT ![_ws[n]] = "closed"]
                    ELSE plugin_ws

\* A plugin process crashes.
ChildExits(n) ==
    /\ _subprocesses[n] = "running"
    /\ _subprocesses' = [_subprocesses EXCEPT ![n] = "exited"]
    /\ process_ends(n)
    /\ UNCHANGED <<rpcVars, loopVars, authVars, connVars, relayVars, hubVars, agentVars,
                   _channels, channel_name, to_hub, to_plugin, nread, nframes,
                   workerVars, _stop_event, stop_at, run_pc, wake_at,
                   cancelled, _ws, hooks, _device_id>>

\* The next connection the server has not accepted yet, or NoConn.
NextConn ==
    IF \E c \in PluginConns : plugin_ws[c] = "new"
    THEN CHOOSE c \in PluginConns :
            /\ plugin_ws[c] = "new"
            /\ \A d \in PluginConns : plugin_ws[d] = "new" => c <= d
    ELSE NoConn

\* PluginTransport.run, transport.py:54-56, and _connect_and_run,
\* transport.py:91-110: while the stop event is not set the plugin connects
\* and sends channel.register with its name.
_connect_and_run(n) ==
    /\ _subprocesses[n] = "running"
    /\ transport_pc[n] = "idle"
    /\ ~transport_stop_event[n]
    /\ Listening
    /\ NextConn # NoConn
    /\ plugin_ws' = [plugin_ws EXCEPT ![NextConn] = "open"]
    /\ to_hub' = [to_hub EXCEPT ![NextConn] =
                     <<[PF0 EXCEPT !.kind = "register", !.name = n]>>]
    /\ _ws' = [_ws EXCEPT ![n] = NextConn]
    /\ transport_pc' = [transport_pc EXCEPT ![n] = "registered"]
    /\ UNCHANGED <<rpcVars, loopVars, authVars, connVars, relayVars, hubVars, agentVars,
                   _channels, channel_name, to_plugin, nread, nframes,
                   workerVars, runVars, hooks, _device_id>>

\* A call of a lifecycle hook of the plugin, on its connection c.
Hook(hook, c) == [hook |-> hook, conn |-> c]

\* DevicesChannel.on_start, plugin.py:90-96, raises RuntimeError when no
\* device_id was configured; EchoChannel.on_start (echo plugin.py:33-34)
\* never raises.
on_start_raises(n) == n = "devices" /\ _device_id[n] = ""

\* transport.py:112: the transport calls on_start.  When on_start raises,
\* _connect_and_run and run end with the exception (run catches
\* ConnectionClosed and OSError only, transport.py:57-71) and the process
\* ends.
on_start(n) ==
    /\ _subprocesses[n] = "running"
    /\ transport_pc[n] = "registered"
    /\ hooks' = [hooks EXCEPT ![n] = Append(@, Hook("on_start", _ws[n]))]
    /\ IF on_start_raises(n)
       THEN /\ process_ends(n)
            /\ _subprocesses' = [_subprocesses EXCEPT ![n] = "exited"]
       ELSE /\ transport_pc' = [transport_pc EXCEPT ![n] = "listening"]
            /\ UNCHANGED <<plugin_ws, _subprocesses>>
    /\ UNCHANGED <<rpcVars, loopVars, authVars, connVars, relayVars, hubVars, agentVars,
                   _channels, channel_name, to_hub, to_plugin, nread, nframes,
                   workerVars, _stop_event, stop_at, run_pc, wake_at,
                   cancelled, _ws, _device_id>>

\* PluginTransport._handle_frame and _dispatch, transport.py:127-188, on
\* the next frame of the supervisor: channel.configure calls on_configure
\* (plugin.py:76-82 sets the device id), channel.stop sets the transport's
\* stop event, channel.send calls the plugin's send; a notification gets
\* no answer.  A frame without a method is a response: the future of its
\* id is taken out of _pending and, unless it is done, completed with the
\* error of the response.
_handle_frame(n) ==
    LET c == _ws[n]
        frame == to_plugin[c][nread[c] + 1]
        answered == IF frame.method = Absent /\ frame.rpc_id \in RequestIds
                    THEN IF futures[frame.rpc_id].plugin = n
                            /\ futures[frame.rpc_id].pending
                         THEN {frame.rpc_id} ELSE {}
                    ELSE {}
    IN
    /\ _subprocesses[n] = "running"
    /\ transport_pc[n] = "listening"
    /\ nread[c] < Len(to_plugin[c])
    /\ nread' = [nread EXCEPT ![c] = @ + 1]
    /\ hooks' = IF frame.method = "channel.configure"
                THEN [hooks EXCEPT ![n] = Append(@, Hook("on_configure", c))]
                ELSE hooks
    /\ _device_id' = IF frame.method = "channel.configure"
                     THEN [_device_id EXCEPT ![n] = "hub"]
                     ELSE _device_id
    /\ transport_stop_event' =
          IF frame.method = "channel.stop"
          THEN [transport_stop_event EXCEPT ![n] = TRUE]
          ELSE transport_stop_event
    /\ futures' = [id \in RequestIds |->
                      IF id \in answered
                      THEN [futures[id] EXCEPT
                              !.pending = FALSE,
                              !.state = IF @ = "waiting" THEN "exception"
                                        ELSE @]
                      ELSE futures[id]]
    /\ UNCHANGED <<loopVars, authVars, connVars, relayVars, hubVars, agentVars,
                   _channels, channel_name, plugin_ws, to_hub, to_plugin,
                   nframes, workerVars, runVars, transport_pc, _ws>>

\* transport.py:114-121 and 54-79: the connection is closed and all its
\* frames are read; the transport calls on_stop and forgets the
\* connection (_pending is left as it is), and run ends when the stop event
\* is set or else waits RECONNECT_DELAY for it.
on_stop(n) ==
    /\ _subprocesses[n] = "running"
    /\ transport_pc[n] = "listening"
    /\ plugin_ws[_ws[n]] # "open"
    /\ nread[_ws[n]] = Len(to_plugin[_ws[n]])
    /\ hooks' = [hooks EXCEPT ![n] = Append(@, Hook("on_stop", _ws[n]))]
    /\ _ws' = [_ws EXCEPT ![n] = NoConn]
    /\ transport_pc' = [transport_pc EXCEPT ![n] =
                           IF transport_stop_event[n] THEN "exited"
                           ELSE "waiting"]
    /\ _subprocesses' = IF transport_stop_event[n]
                        THEN [_subprocesses EXCEPT ![n] = "exited"]
                        ELSE _subprocesses
    /\ UNCHANGED <<rpcVars, loopVars, authVars, connVars, relayVars, hubVars, agentVars,
                   connsVars, workerVars, _stop_event, stop_at, run_pc,
                   wake_at, cancelled, _device_id>>

\* transport.py:73-79 and 54: RECONNECT_DELAY has passed without the stop
\* event; run goes round its loop.
reconnect_wait_over(n) ==
    /\ _subprocesses[n] = "running"
    /\ transport_pc[n] = "waiting"
    /\ ~transport_stop_event[n]
    /\ transport_pc' = [transport_pc EXCEPT ![n] = "idle"]
    /\ UNCHANGED <<rpcVars, loopVars, authVars, connVars, relayVars, hubVars,
                   agentVars, connsVars, workerVars, runVars, _subprocesses,
                   _ws, hooks, _device_id>>

\* transport.py:54 and 73-76: the stop event is set while run is between
\* two connections; run returns and the process ends (main.py of the
\* plugins: asyncio.run(transport.run())).
run_stopped(n) ==
    /\ _subprocesses[n] = "running"
    /\ transport_pc[n] \in {"idle", "waiting"}
    /\ transport_stop_event[n]
    /\ transport_pc' = [transport_pc EXCEPT ![n] = "exited"]
    /\ _subprocesses' = [_subprocesses EXCEPT ![n] = "exited"]
    /\ UNCHANGED <<rpcVars, loopVars, authVars, connVars, relayVars, hubVars,
                   agentVars, connsVars, workerVars, _stop_event, stop_at,
                   run_pc, wake_at, cancelled, _ws, hooks, _device_id>>

\* PluginTransport.stop, transport.py:81-83, called by the plugin's code.
stop(n) ==
    /\ _subprocesses[n] = "running"
    /\ ~transport_stop_event[n]
    /\ transport_stop_event' = [transport_stop_event EXCEPT ![n] = TRUE]
    /\ UNCHANGED <<futures, loopVars, authVars, connVars, relayVars, hubVars,
                   agentVars, connsVars, workerVars, runVars, transportVars>>

\* The ids that no call of request has used yet.
UnusedIds == {i \in 1..MaxRequests : futures[uuid4[i]].state = "none"}

\* PluginTransport.request, transport.py:198-211, called by the plugin's
\* code while the transport has a connection: the future is put into
\* _pending under a new id and the request is sent; ws.send on a closed
\* connection raises ConnectionClosed out of request.  Without a
\* connection request raises RuntimeError before it makes a future.  The
\* supervisor answers a request of any method it does not know
\* (plugin_manager.py:204-217).
request(n) ==
    \E kind \in {"unknown"} :
      LET c == _ws[n]
          request_id == uuid4[CHOOSE i \in UnusedIds :
                                 \A j \in UnusedIds : i <= j]
          sent == plugin_ws[c] = "open"
      IN
      /\ _subprocesses[n] = "running"
      /\ c # NoConn
      /\ UnusedIds # {}
      /\ futures' = [futures EXCEPT ![request_id] =
                        [plugin |-> n, conn |-> c, pending |-> TRUE,
                         state |-> IF sent THEN "waiting" ELSE "raised"]]
      /\ to_hub' = IF sent
                   THEN [to_hub EXCEPT ![c] =
                           Append(@, [PF0 EXCEPT !.kind = kind,
                                                 !.id = request_id])]
                   ELSE to_hub
      /\ UNCHANGED <<transport_stop_event, loopVars, authVars, connVars,
                     relayVars, hubVars, agentVars, _channels, channel_name,
                     plugin_ws, to_plugin, nread, nframes, workerVars,
                     runVars, transportVars>>

\* The stop signal: _server_process.py:77-79 sets the stop event.
StopSignal ==
    /\ ~_stop_event
    /\ now + CancelDelay <= MaxShutdownTime
    /\ _stop_event' = TRUE
    /\ stop_at' = now
    /\ UNCHANGED <<rpcVars, loopVars, authVars, connVars, relayVars, hubVars, agentVars,
                   connsVars, workerVars, run_pc, wake_at, cancelled,
                   _subprocesses, transportVars>>

\* The connected channels, in some order.
RECURSIVE stop_each(_, _)
\* _shutdown_channels, plugin_manager.py:129-133: channel.stop is sent to
\* each channel of the map; an exception of ws.send is ignored.
stop_each(boxes, names) ==
    IF names = {} THEN boxes
    ELSE LET n == CHOOSE m \in names : TRUE
             c == _channels[n]
         IN stop_each(IF c # NoConn /\ plugin_ws[c] = "open"
                      THEN [boxes EXCEPT ![c] =
                               ws_send(@, Notification("channel.stop", 0))]
                      ELSE boxes,
                      names \ {n})

\* PluginManager.run, plugin_manager.py:74-75, and _shutdown_channels up
\* to its sleep, plugin_manager.py:127-136.
_shutdown_channels ==
    /\ run_pc = "serving"
    /\ _stop_event
    /\ to_plugin' = stop_each(to_plugin, ChannelNames)
    /\ run_pc' = "sleeping"
    /\ wake_at' = now + ShutdownSleep
    /\ UNCHANGED <<rpcVars, loopVars, authVars, connVars, relayVars, hubVars, agentVars,
                   _channels, channel_name, plugin_ws, to_hub, nread, nframes,
                   workerVars, _stop_event, stop_at, cancelled, _subprocesses,
                   transportVars>>

\* A supervisor that leaves its children alone.
terminate_skipped(state) == state
\* plugin_manager.py:137-140: proc.terminate() for a process that has not
\* exited.
terminate(state) == IF state = "running" THEN "terminated" ELSE state

\* _shutdown_channels after its sleep, plugin_manager.py:137-142, and the
\* end of the async with block of run, plugin_manager.py:67-75: the
\* children that run are terminated, the server stops listening and closes
\* its connections.  A terminated process ends at once.
_shutdown_terminate ==
    /\ run_pc = "sleeping"
    /\ now >= wake_at
    /\ _subprocesses' = [n \in ChannelNames |-> terminate(_subprocesses[n])]
    /\ transport_pc' = [n \in ChannelNames |->
                           IF _subprocesses'[n] = "terminated" THEN "exited"
                           ELSE transport_pc[n]]
    /\ plugin_ws' = [c \in PluginConns |->
                        IF plugin_ws[c] = "open" THEN "closed"
                        ELSE plugin_ws[c]]
    /\ run_pc' = "closing"
    /\ UNCHANGED <<rpcVars, loopVars, authVars, connVars, relayVars, hubVars, agentVars,
                   _channels, channel_name, to_hub, to_plugin, nread, nframes,
                   workerVars, _stop_event, stop_at, wake_at, cancelled,
                   _ws, hooks, _device_id>>

\* plugin_manager.py:67 and 77: the handlers have ended; run returns.
run_returns ==
    /\ run_pc = "closing"
    /\ \A c \in PluginConns : plugin_ws[c] \in {"new", "done"}
    /\ run_pc' = "stopped"
    /\ UNCHANGED <<rpcVars, loopVars, authVars, connVars, relayVars, hubVars, agentVars,
                   connsVars, workerVars, _stop_event, stop_at, wake_at,
                   cancelled, _subprocesses, transportVars>>

\* _server_process.py:224-229: one and a half seconds after the stop
\* signal _main cancels the tasks that still run.
server_task_cancel ==
    /\ _stop_event
    /\ ~cancelled
    /\ now >= stop_at + CancelDelay
    /\ cancelled' = TRUE
    /\ run_pc' = "stopped"
    /\ outbound_running' = FALSE
    /\ agent_running' = FALSE
    /\ UNCHANGED <<rpcVars, loopVars, authVars, connVars, relayVars, hubVars, inbound_queue,
                   outbound_queue, agent_msg, nreceived, tasks_done,
                   data_received, connsVars, nenqueued, handed, dropped,
                   _stop_event, stop_at, wake_at, _subprocesses,
                   transportVars>>

\* A task of the event loop is ready to run, or a timer is due: the loop
\* runs it before half a second has passed.
Due ==
    \/ run_pc = "spawn"
    \/ run_pc = "serving" /\ _stop_event
    \/ run_pc = "sleeping" /\ now >= wake_at
    \/ _stop_event /\ ~cancelled /\ now >= stop_at + CancelDelay

\* Half a second passes.
TimePasses ==
    /\ now < MaxShutdownTime
    /\ ~Due
    /\ now' = now + 1
    /\ UNCHANGED <<desktop_public_key, last, connVars, relayVars, hubVars,
                   agentVars, supVars>>

(***************************************************************************)
(* SpecLifecycle: the supervisor spawns the devices and the echo plugin,   *)
(* they connect and register, connections can be lost, the stop signal     *)
(* comes at any time.  Every step of the code is taken if it stays         *)
(* possible.                                                               *)
(***************************************************************************)
LifecycleNext ==
    \/ _spawn_channels
    \/ \E n \in ChannelNames : ChildExits(n)
    \/ \E n \in ChannelNames : _connect_and_run(n)
    \/ \E n \in ChannelNames : on_start(n)
    \/ \E n \in ChannelNames : _handle_frame(n)
    \/ \E n \in ChannelNames : on_stop(n)
    \/ \E n \in ChannelNames : reconnect_wait_over(n)
    \/ \E c \in PluginConns : PluginCloses(c)
    \/ \E c \in PluginConns : _handle_connection_frame(c)
    \/ \E c \in PluginConns : _handle_connection_closed(c)
    \/ StopSignal
    \/ _shutdown_channels
    \/ _shutdown_terminate
    \/ run_returns
    \/ server_task_cancel
    \/ TimePasses

LifecycleFairness ==
    /\ WF_vars(_spawn_channels)
    /\ WF_vars(_shutdown_channels)
    /\ WF_vars(_shutdown_terminate)
    /\ WF_vars(run_returns)
    /\ WF_vars(server_task_cancel)
    /\ WF_vars(TimePasses)
    /\ WF_vars(\E c \in PluginConns : _handle_connection_frame(c))
    /\ WF_vars(\E c \in PluginConns : _handle_connection_closed(c))

SpecLifecycle == HubSpecInit /\ [][LifecycleNext]_vars /\ LifecycleFairness

(***************************************************************************)
(* SpecTransport: SpecLifecycle with the calls a plugin's code can make on *)
(* its transport, request and stop.  The transport's own steps are tasks   *)
(* of the plugin's event loop and are taken when they stay possible.       *)
(***************************************************************************)
\* The plugins whose code calls request and stop on its transport.
Callers == {"echo"}

TransportNext ==
    \/ LifecycleNext
    \/ \E n \in Callers : request(n)
    \/ \E n \in Callers : stop(n)
    \/ \E n \in ChannelNames : run_stopped(n)

TransportFairness ==
    /\ LifecycleFairness
    /\ \A n \in ChannelNames :
         /\ WF_vars(_connect_and_run(n))
         /\ WF_vars(on_start(n))
         /\ WF_vars(_handle_frame(n))
         /\ WF_vars(on_stop(n))
         /\ WF_vars(reconnect_wait_over(n))
         /\ WF_vars(run_stopped(n))

SpecTransport == HubSpecInit /\ [][TransportNext]_vars /\ TransportFairness

(***************************************************************************)
(* SpecRequest: the plugins and the supervisor's connection handlers while *)
(* the supervisor runs: connections are lost and made again, the plugin's  *)
(* code calls request and stop.                                            *)
(***************************************************************************)
RequestNext ==
    \/ _spawn_channels
    \/ \E n \in ChannelNames : _connect_and_run(n)
    \/ \E n \in ChannelNames : on_start(n)
    \/ \E n \in ChannelNames : _handle_frame(n)
    \/ \E n \in ChannelNames : on_stop(n)
    \/ \E n \in ChannelNames : reconnect_wait_over(n)
    \/ \E n \in Callers : request(n)
    \/ \E n \in Callers : stop(n)
    \/ \E n \in ChannelNames : run_stopped(n)
    \/ \E c \in PluginConns : PluginCloses(c)
    \/ \E c \in PluginConns : _handle_connection_frame(c)
    \/ \E c \in PluginConns : _handle_connection_closed(c)

RequestFairness ==
    /\ WF_vars(_spawn_channels)
    /\ WF_vars(\E c \in PluginConns : _handle_connection_frame(c))
    /\ WF_vars(\E c \in PluginConns : _handle_connection_closed(c))
    /\ \A n \in ChannelNames :
         /\ WF_vars(_connect_and_run(n))
         /\ WF_vars(on_start(n))
         /\ WF_vars(_handle_frame(n))
         /\ WF_vars(on_stop(n))
         /\ WF_vars(reconnect_wait_over(n))
         /\ WF_vars(run_stopped(n))

SpecRequest == HubSpecInit /\ [][RequestNext]_vars /\ RequestFairness

(***************************************************************************)
(* The reconnect loop of the devices plugin, plugin.py:128-168: every      *)
(* connection to the Gateway fails before it has authenticated, or         *)
(* authenticates and is lost later.                                        *)
(***************************************************************************)
MaxSleeps == 8

\* _run_gateway_connection, plugin.py:151-160, up to the receive loop: the
\* connection and its authentication succeed, and gateway_connected is
\* emitted, or one of them raises.
_run_gateway_connection ==
    \E authenticated \in BOOLEAN :
        /\ gw_pc = "connecting"
        /\ gw_pc' = IF authenticated THEN "connected" ELSE "failed"
        /\ rpc_in' = IF authenticated THEN emit_event("gateway_connected", E0)
                     ELSE rpc_in
        /\ UNCHANGED <<authVars, connVars, relayVars, session, nsessions,
                       approved_devices, hub_sent, dispatched, _event_callback,
                       plugin_read, plugin_out, agentVars, connsVars,
                       workerVars, runVars, transportVars, rpcVars, backoff,
                       sleeps>>

\* plugin.py:162-168: the connection to the Gateway is lost; the receive
\* loop ends.
GatewayDisconnects ==
    /\ gw_pc = "connected"
    /\ gw_pc' = "disconnected"
    /\ UNCHANGED <<authVars, connVars, relayVars, hubVars, agentVars,
                   connsVars, workerVars, runVars, transportVars, rpcVars,
                   backoff, sleeps>>

\* plugin.py:149.
next_backoff(b) == IF b * 2 < BACKOFF_MAX THEN b * 2 ELSE BACKOFF_MAX

\* _run_gateway_loop, plugin.py:133-149, after a connection that ended:
\* gateway_disconnected is emitted, the loop sleeps for backoff seconds and
\* doubles backoff.
_run_gateway_loop ==
    /\ gw_pc \in {"failed", "disconnected"}
    /\ Len(sleeps) < MaxSleeps
    /\ rpc_in' = emit_event("gateway_disconnected", E0)
    /\ sleeps' = Append(sleeps, [delay |-> backoff,
                                 authenticated |-> gw_pc = "disconnected"])
    /\ backoff' = next_backoff(backoff)
    /\ gw_pc' = "connecting"
    /\ UNCHANGED <<authVars, connVars, relayVars, session, nsessions,
                   approved_devices, hub_sent, dispatched, _event_callback,
                   plugin_read, plugin_out, agentVars, connsVars, workerVars,
                   runVars, transportVars, rpcVars>>

BackoffNext ==
    \/ _run_gateway_connection
    \/ GatewayDisconnects
    \/ _run_gateway_loop

SpecBackoff == HubSpecInit /\ [][BackoffNext]_vars

(***************************************************************************)
(* Properties of the auth store (SpecAuth).                                *)
(***************************************************************************)
\* The key and the validity of the signature of the desktop claim in last.
LastClaimKey == _load_public_key_b64(last.public_key)
LastClaimSigned ==
    /\ LastClaimKey \in RawKeys
    /\ last.signature = Sign(LastClaimKey, NonceMsg(last.nonce))

\* C7 (as amended): a desktop claim with a valid signature under key K on
\* an unclaimed store succeeds and stores K; a validly signed claim under
\* the stored key succeeds; a claim under another key fails, with reason
\* "gateway already claimed ..." when its signature is valid and "desktop
\* claim signature invalid" when it is not.
C7_ClaimOnceThenSameKeyOnly ==
    last.op = "desktop_claim" =>
        /\ (last.before = Absent /\ LastClaimSigned) =>
               /\ last.result.ok
               /\ desktop_public_key = LastClaimKey
        /\ (last.before # Absent /\ LastClaimSigned
                /\ LastClaimKey = last.before) => last.result.ok
        /\ (last.before # Absent /\ LastClaimKey \in RawKeys
                /\ LastClaimKey # last.before) =>
               /\ ~last.result.ok
               /\ last.result.reason =
                      IF LastClaimSigned
                      THEN "gateway already claimed by another desktop"
                      ELSE "desktop claim signature invalid"

\* C7 witness: a validly signed claim under K2 was refused by a store that
\* holds K1.
C7_Witness ==
    /\ last.op = "desktop_claim"
    /\ last.before = "K1"
    /\ LastClaimKey = "K2"
    /\ LastClaimSigned
    /\ ~last.result.ok
    /\ last.result.reason = "gateway already claimed by another desktop"

\* C7 as stated: every claim under a key other than the stored one fails
\* with reason "gateway already claimed ...", whatever its signature.
C7_AsStated ==
    last.op = "desktop_claim" =>
        /\ (last.before = Absent /\ LastClaimSigned) =>
               /\ last.result.ok
               /\ desktop_public_key = LastClaimKey
        /\ (last.before # Absent /\ LastClaimSigned
                /\ LastClaimKey = last.before) => last.result.ok
        /\ (last.before # Absent /\ LastClaimKey \in RawKeys
                /\ LastClaimKey # last.before) =>
               /\ ~last.result.ok
               /\ last.result.reason = "gateway already claimed by another desktop"

\* C8: a trust root that holds a key is changed by no call on the store,
\* and a desktop claim with an invalid signature leaves an unclaimed store
\* unclaimed.
C8_TrustRootNeverRotated ==
    [][/\ desktop_public_key # Absent =>
              desktop_public_key' = desktop_public_key
       /\ (desktop_public_key = Absent /\ last' # last
               /\ last'.op = "desktop_claim"
               /\ ~(LastClaimSigned)') => desktop_public_key' = Absent]_vars

\* C8 witness: a claimed store has answered a validly signed claim under
\* another key and a device auth, and still holds its key.
C8_Witness ==
    /\ last.op \in {"desktop_claim", "device"}
    /\ last.before = "K2"
    /\ desktop_public_key = "K2"
    /\ \/ last.op = "desktop_claim" /\ LastClaimKey = "K1" /\ LastClaimSigned
       \/ last.op = "device" /\ last.result.ok

\* What C9 requires of the device auth in last for an ok.
LastBlob == json_loads_blob(last.blob)
LastDeviceAuthHolds ==
    /\ last.before # Absent
    /\ last.desktop_signature = Sign(last.before, BlobMsg(last.blob))
    /\ LastBlob.json = "object"
    /\ ~Missing(LastBlob.device_id)
    /\ ~Missing(LastBlob.device_public_key)
    /\ ~Missing(LastBlob.expires_at)
    /\ _parse_iso8601_utc(LastBlob.expires_at) # ParseError
    /\ _parse_iso8601_utc(LastBlob.expires_at) > last.at
    /\ _load_public_key_b64(LastBlob.device_public_key) \in RawKeys
    /\ last.signature = Sign(_load_public_key_b64(LastBlob.device_public_key),
                             NonceMsg(last.nonce))

\* C9: verify_device_auth returns ok, with the blob's device_id, only when
\* the store is claimed, the attestation is signed by the root, the blob has
\* its three fields, is not expired and the nonce is signed by the blob's
\* device key; in every other case it returns not-ok with a reason and no
\* device_id.  verify_desktop_auth fails while the store is unclaimed.
C9_DeviceAuthOkOnlyWhenAllHold ==
    /\ last.op = "device" =>
           /\ ~last.result.raised
           /\ last.result.ok <=> LastDeviceAuthHolds
           /\ last.result.ok => last.result.device_id = LastBlob.device_id
           /\ ~last.result.ok =>
                  /\ last.result.reason # Absent
                  /\ last.result.device_id = Absent
    /\ (last.op = "desktop" /\ last.before = Absent) => ~last.result.ok

(***************************************************************************)
(* Properties of the relay (Spec, SpecOrder).                              *)
(***************************************************************************)
\* The frames relay_message has delivered to connection r.
Relayed(r) == {i \in 1..Len(inbox[r]) : inbox[r][i].relayed}
\* Handler c looks up the recipients of the frame cur'[c] under the
\* registry lock.
LooksUp(c) == pc[c] \in {"running", "relay_lock"} /\ pc'[c] = "sending"
\* The connections registered under some device id.
Registered == {_registry[d] : d \in {e \in DeviceIds : _registry[e] # NoConn}}

\* C1: a connection is registered under no id but the one it authenticated
\* as (so each device id has at most one connection, and each connection one
\* id); register() of an id whose connection is still open closes that
\* connection with code 4000 before it assigns, and when register() returns
\* the old connection is closed and the new one is the registered one.
C1_RegisterReplaces ==
    /\ [](\A d \in DeviceIds :
            _registry[d] # NoConn => device_id[_registry[d]] = d)
    /\ [][\A c \in Conns :
            LET old_ws == _registry[device_id[c]] IN
            /\ (pc[c] # "register_close" /\ pc'[c] = "register_close") =>
                   /\ old_ws # NoConn
                   /\ ~wsOpen'[old_ws]
                   /\ close_code'[old_ws] = 4000
            /\ (pc[c] \in {"authed", "register_lock", "register_close"}
                    /\ pc'[c] = "running") =>
                   /\ _registry'[device_id[c]] = c
                   /\ \A d \in DeviceIds \ {device_id[c]} :
                          _registry'[d] = _registry[d]
                   /\ old_ws # NoConn => ~wsOpen'[old_ws]
                   /\ pc[c] = "register_close" => close_code'[old_ws] = 4000
                   /\ pc[c] # "register_close" =>
                          (old_ws = NoConn \/ ~wsOpen[old_ws])]_vars

\* C1 witness: a connection was closed with 4000 and a later connection
\* of the same device id is the registered one.
C1_Witness ==
    \E c, d \in Conns :
        /\ c # d
        /\ close_code[c] = 4000
        /\ device_id[d] = device_id[c]
        /\ _registry[device_id[d]] = d

\* C2: every relayed frame carries the authenticated device id of the
\* connection it came in on as sender_device_id, whatever the client wrote.
C2_SenderStamped ==
    \A r \in Conns : \A i \in Relayed(r) :
        inbox[r][i].sender_device_id = device_id[inbox[r][i].from]

\* C2 witness: a frame in which device d1 named "hub" as its sender has
\* been delivered.
C2_Witness ==
    \E r \in Conns : \E i \in Relayed(r) :
        /\ inbox[r][i].claimed = "hub"
        /\ device_id[inbox[r][i].from] = "d1"

\* C3: frames of one connection reach every recipient in the order in
\* which they were sent.
C3_OrderPreserved ==
    \A r \in Conns : \A i, j \in Relayed(r) :
        (i < j /\ inbox[r][i].from = inbox[r][j].from) =>
            inbox[r][i].seq < inbox[r][j].seq

\* C3 witness: a recipient got two frames of one connection with a frame of
\* another connection between them.
C3_Witness ==
    \E r \in Conns : \E i, j, k \in Relayed(r) :
        /\ i < j /\ j < k
        /\ inbox[r][i].from = inbox[r][k].from
        /\ inbox[r][j].from # inbox[r][i].from

\* C4 (as amended): a frame whose target_device_id is a registered id goes
\* to the connection registered under that id and to no other; a relayed
\* frame with a device id as target only ever reaches connections of that
\* device.  (The sender gets it when it is itself that connection.)
C4_TargetOnly ==
    /\ [][\A c \in Conns :
            (LooksUp(c) /\ cur'[c].target_device_id \in DeviceIds
                 /\ _registry[cur'[c].target_device_id] # NoConn) =>
                recipients'[c] = {_registry[cur'[c].target_device_id]}]_vars
    /\ [](\A r \in Conns : \A i \in Relayed(r) :
            inbox[r][i].target_device_id \in DeviceIds =>
                device_id[r] = inbox[r][i].target_device_id)

\* C4 witness: a frame for d2 sent by d1 has reached a connection of d2.
C4_Witness ==
    \E r \in Conns : \E i \in Relayed(r) :
        /\ inbox[r][i].target_device_id = "d2"
        /\ device_id[inbox[r][i].from] = "d1"
        /\ device_id[r] = "d2"

\* C4 as stated: moreover the sending connection never gets a copy.
C4_AsStated ==
    \A r \in Conns : \A i \in Relayed(r) :
        inbox[r][i].target_device_id \in DeviceIds =>
            /\ device_id[r] = inbox[r][i].target_device_id
            /\ inbox[r][i].from # r

\* C5 (as amended): a frame without target_device_id goes to every
\* connection that is registered, when relay_message looks, under a device
\* id other than the sender's, and never to the connection it came in on.
C5_BroadcastToOtherDevices ==
    /\ [][\A c \in Conns :
            (LooksUp(c) /\ cur'[c].target_device_id = Absent) =>
                recipients'[c] =
                    {_registry[d] :
                        d \in {e \in DeviceIds : /\ _registry[e] # NoConn
                                                 /\ e # device_id[c]}}]_vars
    /\ [](\A r \in Conns : \A i \in Relayed(r) :
            inbox[r][i].target_device_id = Absent => inbox[r][i].from # r)

\* C5 witness: a frame without target sent by d1 has reached a connection
\* of d2.
C5_Witness ==
    \E r \in Conns : \E i \in Relayed(r) :
        /\ inbox[r][i].target_device_id = Absent
        /\ device_id[inbox[r][i].from] = "d1"
        /\ device_id[r] = "d2"

\* C5 as stated: a frame without target_device_id goes to every registered
\* connection but the one it came in on.
C5_AsStated ==
    [][\A c \in Conns :
         (LooksUp(c) /\ cur'[c].target_device_id = Absent) =>
             recipients'[c] = Registered \ {c}]_vars

\* C6: a frame whose target_device_id is present and is not the id of a
\* registered device (an unknown id, "" or null) reaches no connection: a
\* delivered frame that has the field was sent to the device it names.
C6_UnknownTargetDropped ==
    \A r \in Conns : \A i \in Relayed(r) :
        inbox[r][i].target_device_id # Absent =>
            device_id[r] = inbox[r][i].target_device_id

(***************************************************************************)
(* Properties of the handshake (SpecHandshake).                            *)
(***************************************************************************)
\* C10: only a connection whose first frame passed authentication is
\* registered or has its frames relayed; a connection whose first frame was
\* rejected, or did not come in time, is closed with 4003 and is not
\* registered; pairing callers are not registered.
C10_OnlyAuthenticatedRegistered ==
    /\ \A c \in Registered : first[c] = "passed"
    /\ \A r \in Conns : \A i \in Relayed(r) : first[inbox[r][i].from] = "passed"
    /\ \A c \in Conns : first[c] = "rejected" => close_code[c] = 4003

\* The open connections whose handler is in its message loop with the role
\* desktop: the ones whose pairing_response frames the Gateway acts on
\* (relay.py:322-329).
DesktopRole ==
    {c \in Conns : /\ is_desktop[c]
                   /\ wsOpen[c]
                   /\ pc[c] \in {"running", "relay_lock", "sending"}}

\* C11: at every moment at most one open connection has the role desktop.
C11_OneDesktop == Cardinality(DesktopRole) <= 1

(***************************************************************************)
(* Properties of the pairing bridge (SpecHandshake).                       *)
(***************************************************************************)
\* Handler c reads a pairing_request as its first frame, cur'[c].
Requests(c) == first[c] = "none" /\ first'[c] = "pairing_request"
\* What _forward_pairing_request sends to the desktop for caller c.
Forwarded(c, m) ==
    [M0 EXCEPT !.type = "pairing_request", !.request_id = request_id_of(c),
               !.pairing_code = m.pairing_code,
               !.device_public_key = m.device_public_key]
HasBothFields(m) ==
    m.pairing_code \notin {Absent, ""} /\ m.device_public_key \notin {Absent, ""}

\* C12: a pairing_request is forwarded and gets a pending entry only when it
\* has both fields and the desktop slot is taken; with a field missing the
\* caller is closed with 4004, with an empty slot with 4006, and then
\* nothing is sent and no pending entry is made.
C12_ForwardOnlyValidRequests ==
    /\ [][\A c \in Conns :
            Requests(c) =>
                /\ ~HasBothFields(cur'[c]) =>
                       /\ close_code'[c] = 4004
                       /\ _pairing_pending' = _pairing_pending
                       /\ inbox' = inbox
                /\ (HasBothFields(cur'[c]) /\ _desktop_ws = NoConn) =>
                       /\ close_code'[c] = 4006
                       /\ _pairing_pending' = _pairing_pending
                       /\ inbox' = inbox
                /\ (HasBothFields(cur'[c]) /\ _desktop_ws # NoConn) =>
                       /\ _pairing_pending'[request_id_of(c)] = c
                       /\ wsOpen[_desktop_ws] =>
                              inbox'[_desktop_ws] =
                                  Append(inbox[_desktop_ws],
                                         Forwarded(c, cur'[c]))]_vars
    /\ [](\A r \in Conns :
            _pairing_pending[r] # NoConn =>
                /\ first[_pairing_pending[r]] = "pairing_request"
                /\ HasBothFields(cur[_pairing_pending[r]]))
    /\ [](\A d \in Conns : \A i \in 1..Len(inbox[d]) :
            inbox[d][i].type = "pairing_request" =>
                /\ is_desktop[d]
                /\ HasBothFields(inbox[d][i]))

\* C12 witness: a request with both fields is pending and has been sent to
\* the desktop.
C12_Witness ==
    \E c, d \in Conns :
        /\ _pairing_pending[request_id_of(c)] = c
        /\ pc[c] = "pairing_wait"
        /\ \E i \in 1..Len(inbox[d]) : inbox[d][i] = Forwarded(c, cur[c])

\* Desktop handler c reads a pairing_response, cur'[c], with a request_id
\* and a status of approved or rejected.
Responds(c) ==
    /\ is_desktop[c]
    /\ nrecv'[c] = nrecv[c] + 1
    /\ cur'[c].type = "pairing_response"
    /\ cur'[c].seq = nrecv'[c]
    /\ cur'[c].status \in {"approved", "rejected"}
PendingCaller(r) == IF r \in Conns THEN _pairing_pending[r] ELSE NoConn
OthersGetNothing(p) == \A d \in Conns \ {p} : inbox'[d] = inbox[d]
Delivered(p, f) ==
    /\ Len(inbox'[p]) = Len(inbox[p]) + 1
    /\ SubSeq(inbox'[p], 1, Len(inbox[p])) = inbox[p]
    /\ inbox'[p][Len(inbox'[p])].type = "pairing_response"
    /\ inbox'[p][Len(inbox'[p])].status = f.status

\* C13: a pairing_response of the desktop for a pending request_id removes
\* the pending entry, is sent to the caller of that request and to nobody
\* else, and the caller is closed with 1000; a response whose request_id is
\* not pending (answered before, or unknown) is sent to nobody.
C13_ResponseToCallerOnce ==
    [][\A c \in Conns :
          Responds(c) =>
              LET f == cur'[c]
                  p == PendingCaller(f.request_id)
              IN  IF p # NoConn
                  THEN /\ _pairing_pending'[f.request_id] = NoConn
                       /\ Delivered(p, f)
                       /\ OthersGetNothing(p)
                       /\ ~wsOpen'[p]
                       /\ close_code'[p] = 1000
                  ELSE /\ inbox' = inbox
                       /\ _pairing_pending' = _pairing_pending]_vars

\* The pairing wait of caller c expires: its handler ends while the caller
\* is still connected.
WaitExpires(c) == pc[c] = "pairing_wait" /\ wsOpen[c] /\ pc'[c] = "done"
TimedOut(c) == first[c] = "pairing_request" /\ close_code[c] = 4008
GotResponse(c) ==
    \E i \in 1..Len(inbox[c]) : inbox[c][i].type = "pairing_response"

\* C14: when the pairing wait expires with the caller connected and
\* unanswered, the pending entry is removed and the caller is closed with
\* 4008; a pairing_response read after that is delivered to nobody.
C14_TimeoutDropsRequest ==
    /\ [][\A c \in Conns :
            WaitExpires(c) =>
                /\ _pairing_pending'[request_id_of(c)] = NoConn
                /\ close_code'[c] = 4008
                /\ ~wsOpen'[c]]_vars
    /\ [](\A c \in Conns :
            TimedOut(c) =>
                /\ _pairing_pending[request_id_of(c)] = NoConn
                /\ ~GotResponse(c))
    /\ [][\A d, c \in Conns :
            (Responds(d) /\ cur'[d].request_id = request_id_of(c)
                /\ TimedOut(c)) =>
                /\ inbox' = inbox
                /\ _pairing_pending' = _pairing_pending]_vars

\* C14 witness: a caller was closed with 4008 and the desktop, which had
\* been sent its request, has answered it with approved.
C14_Witness ==
    \E c, d \in Conns :
        /\ TimedOut(c)
        /\ \E i \in 1..Len(inbox[d]) : inbox[d][i] = Forwarded(c, cur[c])
        /\ cur[d].type = "pairing_response"
        /\ cur[d].request_id = request_id_of(c)
        /\ cur[d].status = "approved"
        /\ ~GotResponse(c)

(***************************************************************************)
(* Properties of the Hub's pairing controller (SpecHub).                   *)
(***************************************************************************)
\* The controller answers in this step; Answer is what it sends.
Answers == Len(hub_sent') = Len(hub_sent) + 1
Answer == hub_sent'[Len(hub_sent')]
WellFormed(r) == ~Missing(r.code) /\ ~Missing(r.key)
ApprovedAnswers == {i \in 1..Len(hub_sent) : hub_sent[i].status = "approved"}

\* C15: the controller answers approved only when, as it handles the
\* request, a session exists, the time is before created_at + ttl_seconds
\* and the request's code is the session's; in every other case it issues
\* no attestation and stores no approved device.
C15_ApprovedOnlyForActiveSessionCode ==
    [][/\ Answers =>
            IF Answer.status = "approved"
            THEN /\ session # NoSession
                 /\ now' < session.created_at + session.ttl_seconds
                 /\ Answer.code = session.code
                 /\ Answer.sid = session.sid
            ELSE /\ Answer.attestation = Absent
                 /\ Answer.device_id = Absent
                 /\ approved_devices' = approved_devices
       /\ ~Answers => approved_devices' = approved_devices]_vars

\* C15 witness: a request was approved and its device stored.
C15_Witness ==
    /\ ApprovedAnswers # {}
    /\ Len(approved_devices) = 1
    /\ \E i \in 1..Len(hub_sent) :
          hub_sent[i].reason = "pairing_code_invalid_or_expired"

\* The last session created was used by an approval and none was created
\* since; UsedCode is its code.
SessionUsed ==
    /\ session = NoSession
    /\ \E i \in ApprovedAnswers : hub_sent[i].sid = nsessions
UsedCode ==
    (CHOOSE i \in ApprovedAnswers : hub_sent[i].sid = nsessions) 

C17_WrongCodeClearsSession ==
    [][(/\ Answers
        /\ WellFormed(Answer)
        /\ session # NoSession
        /\ now' < session.created_at + session.ttl_seconds
        /\ Answer.code # session.code) =>
            /\ Answer.status = "rejected"
            /\ Answer.reason = "pairing_code_invalid_or_expired"
            /\ session' = NoSession]_vars

\* A rejection that carries a reason and neither device_id nor attestation.
CleanRejection(r) ==
    r.status = "rejected" =>
        /\ r.reason \notin {Absent, Null, ""}
        /\ r.device_id = Absent
        /\ r.attestation = Absent

\* C18: a rejected pairing_response carries a non-empty reason and neither
\* device_id nor attestation at each hop: as the controller hands it to the
\* devices channel, as the devices plugin sends it to the Gateway, and as
\* the Gateway forwards what a desktop sent to the caller.
C18_RejectionsCarryOnlyReason ==
    /\ \A i \in 1..Len(hub_sent) : CleanRejection(hub_sent[i])
    /\ \A i \in 1..Len(plugin_out) :
          /\ CleanRejection(plugin_out[i])
          /\ CleanRejection(pairing_outbound(plugin_out[i]))
    /\ \A f \in PairingResponses :
          f.status \in {"approved", "rejected"} =>
              CleanRejection(pairing_outbound(f))

\* C18 witness: the controller has rejected a request, and the plugin has
\* sent on a rejection that came without a reason.
C18_Witness ==
    /\ \E i \in 1..Len(hub_sent) : hub_sent[i].status = "rejected"
    /\ \E i \in 1..Len(plugin_out) :
          /\ plugin_out[i].status = "rejected"
          /\ plugin_out[i].reason = "rejected"
    /\ \E f \in PairingResponses :
          /\ f.status = "rejected"
          /\ f.device_id # Absent

(***************************************************************************)
(* Properties of the pairing bridge end to end (SpecPairing).              *)
(***************************************************************************)
\* Caller c waits for the answer to a request that carries the code of the
\* active session, and the plugin holds the desktop connection.
HappyRequest(c) ==
    /\ pc[c] = "pairing_wait"
    /\ wsOpen[c]
    /\ _desktop_ws = PluginConn
    /\ wsOpen[PluginConn]
    /\ session # NoSession
    /\ is_valid(session, now)
    /\ cur[c].pairing_code = session.code
\* The request of caller c is at the Hub as a pairing_request event.
EventAtHub(c) ==
    \E i \in 1..Len(rpc_in) :
        /\ rpc_in[i].event = "pairing_request"
        /\ rpc_in[i].data.request_id = request_id_of(c)
        /\ rpc_in[i].data.pairing_code = cur[c].pairing_code
\* Caller c has its approval and was closed with 1000.
Completed(c) ==
    /\ close_code[c] = 1000
    /\ \E i \in 1..Len(inbox[c]) :
          /\ inbox[c][i].type = "pairing_response"
          /\ inbox[c][i].status = "approved"
          /\ inbox[c][i].device_id # Absent
          /\ inbox[c][i].attestation # Absent

\* C19: a pairing_request with the code of the active session, made while
\* the desktop is connected, reaches the Hub's pairing controller as a
\* pairing_request event, and its caller gets an approved pairing_response
\* with device_id and attestation and is closed with 1000.
C19_HappyPathCompletes ==
    \A c \in Conns \ {PluginConn} :
        /\ HappyRequest(c) ~> (EventAtHub(c) \/ Completed(c))
        /\ HappyRequest(c) ~> Completed(c)

(***************************************************************************)
(* Attestations of the Hub at the Gateway (SpecAuth).                      *)
(***************************************************************************)
\* The last call was verify_device_auth with the signature of attestation
\* att, on a Gateway whose stored desktop key made that signature.
PresentsSignatureOf(att) ==
    /\ last.op = "device"
    /\ last.desktop_signature = att.desktop_signature
    /\ last.before = att.desktop_signature.signer
\* The verification of desktop_signature failed (auth.py:131-136).
SignatureRefused ==
    /\ ~last.result.ok
    /\ ~last.result.raised
    /\ last.result.reason = "attestation signature invalid"

\* C24: the desktop_signature of an attestation made by
\* create_device_attestation with the desktop key verifies at the Gateway
\* over the blob of that attestation, and over no blob that differs from it.
C24_AttestationVerifiesOverLiteralBlob ==
    \A att \in Issued(MaxTime) :
        PresentsSignatureOf(att) =>
            (SignatureRefused <=> last.blob # att.blob)

\* C24 witness: the Gateway has accepted a device with an attestation of the
\* Hub, blob and signature as issued.
C24_Witness ==
    \E att \in Issued(MaxTime) :
        /\ PresentsSignatureOf(att)
        /\ last.blob = att.blob
        /\ last.result.ok

(***************************************************************************)
(* Frames that cannot be relayed (Spec).                                   *)
(***************************************************************************)
\* The handler of c reads a frame and starts no relay with it: the frame is
\* not JSON, or JSON that is no object.
ReadsUnrelayable(c) ==
    /\ nrecv'[c] = nrecv[c] + 1
    /\ cur'[c] = cur[c]
    /\ recipients'[c] = recipients[c]

\* C26: a frame of an authenticated connection that cannot be relayed (not
\* JSON, or JSON that is no object) is dropped: the connection is neither
\* closed nor unregistered, and its handler reads on.
C26_UnrelayableFrameDropped ==
    [][\A c \in Conns : ReadsUnrelayable(c) =>
            /\ pc'[c] = "running"
            /\ wsOpen'[c] = wsOpen[c]
            /\ close_code'[c] = close_code[c]
            /\ _registry' = _registry]_vars

(***************************************************************************)
(* Properties of the agent worker (SpecAgent).                             *)
(***************************************************************************)
\* The worker takes the message at the head of the inbound queue.
Takes ==
    /\ agent_msg = NoMsg
    /\ inbound_queue # <<>>
    /\ inbound_queue' = Tail(inbound_queue)

\* C20: the agent worker puts no message on the outbound queue for an
\* inbound message whose content_type is not text; it takes such a message
\* off the inbound queue and does nothing with it.
C20_NonTextDropped ==
    /\ [][(Takes /\ Head(inbound_queue).content_type # "text") =>
              /\ agent_msg' = NoMsg
              /\ outbound_queue' = outbound_queue]_vars
    /\ [](\A i \in 1..Len(outbound_queue) :
              outbound_queue[i].reply_to.content_type = "text")
    /\ [](agent_msg # NoMsg => agent_msg.content_type = "text")

\* C20 witness: the worker is done with two messages, neither of them
\* text (a text message ends the worker or is still held), and has put
\* nothing on the outbound queue.
C20_Witness ==
    /\ tasks_done = 2
    /\ agent_running
    /\ inbound_queue = <<>>
    /\ agent_msg = NoMsg
    /\ outbound_queue = <<>>

\* The worker is done with the text message it holds.
Processes ==
    /\ agent_msg # NoMsg
    /\ agent_msg' = NoMsg

\* C21: for every inbound text message the worker takes, it puts exactly
\* one message on the outbound queue, with direction outbound, the
\* inbound's channel, recipient_id the inbound's sender_id and content_type
\* text, and the worker goes on to the next inbound message.
C21_TextGetsOneReply ==
    [][Processes =>
          /\ Len(outbound_queue') = Len(outbound_queue) + 1
          /\ LET reply == outbound_queue'[Len(outbound_queue')] IN
                /\ reply.direction = "outbound"
                /\ reply.channel = agent_msg.channel
                /\ reply.recipient_id = agent_msg.sender_id
                /\ reply.content_type = "text"
          /\ agent_running']_vars

\* CommunicationManager.receive has been called.
Received == nreceived' = nreceived + 1
\* What the claim calls a dict that validates as a UnifiedMessage: the
\* required fields channel, direction and sender_id are strings.
IsStr(v) == v \notin {Absent, Null}
Validates(data) == IsStr(data.channel) /\ IsStr(data.direction) /\ IsStr(data.sender_id)

\* C27: receive puts a params dict on the inbound queue exactly when it
\* validates as a UnifiedMessage; a dict that does not is dropped and
\* leaves both queues as they were; the inbound queue holds the valid
\* messages in the order they arrived.
C27_ReceiveQueuesValidOnly ==
    /\ [][Received =>
            /\ outbound_queue' = outbound_queue
            /\ IF Validates(data_received')
               THEN /\ Len(inbound_queue') = Len(inbound_queue) + 1
                    /\ SubSeq(inbound_queue', 1, Len(inbound_queue)) = inbound_queue
                    /\ inbound_queue'[Len(inbound_queue')].id = nreceived'
                    /\ inbound_queue'[Len(inbound_queue')].sender_id = data_received'.sender_id
               ELSE inbound_queue' = inbound_queue]_vars
    /\ [](\A i, j \in 1..Len(inbound_queue) :
              i < j => inbound_queue[i].id < inbound_queue[j].id)

\* C27 witness: of three dicts given to receive, the first and the third
\* were valid and are queued in that order; the second was dropped.
C27_Witness ==
    /\ nreceived = 3
    /\ Len(inbound_queue) = 2
    /\ inbound_queue[1].id = 1
    /\ inbound_queue[2].id = 3
    /\ outbound_queue = <<>>

(***************************************************************************)
(* Properties of the supervisor and the outbound worker (SpecSupervisor).  *)
(***************************************************************************)
\* The positions of the channel.send notifications sent on connection c.
Sends(c) == {i \in 1..Len(to_plugin[c]) : to_plugin[c][i].method = "channel.send"}

\* C22: the outbound worker gives the messages to send_to_channel in the
\* order of their enqueue_outbound calls, and the channel.send
\* notifications on a plugin's connection are in that order.
C22_OutboundInEnqueueOrder ==
    /\ \A i \in 1..Len(handed) : handed[i] = i
    /\ \A c \in PluginConns : \A i, j \in Sends(c) :
          i < j => to_plugin[c][i].id < to_plugin[c][j].id

\* C22 witness: both messages were enqueued for the channel of connection
\* 1 and the connection got them, the first before the second.
C22_Witness ==
    /\ handed = <<1, 2>>
    /\ \E i, j \in Sends(1) :
          /\ i < j
          /\ to_plugin[1][i].id = 1
          /\ to_plugin[1][j].id = 2

\* The worker takes a message for a channel that is not connected.
TakesUnconnected ==
    /\ outbound_running
    /\ outbound_queue # <<>>
    /\ Len(handed') = Len(handed) + 1
    /\ _channels[Head(outbound_queue).channel] = NoConn

\* C28: an outbound message for a channel that is not connected when the
\* worker dispatches it is dropped: it is sent on no connection, it is not
\* kept in the queue, and no connection gets it later.
C28_UnconnectedDropped ==
    /\ [][TakesUnconnected =>
            /\ to_plugin' = to_plugin
            /\ outbound_queue' = Tail(outbound_queue)]_vars
    /\ [](\A c \in PluginConns : \A i \in Sends(c) :
              to_plugin[c][i].id \notin dropped)

\* C28 witness: message 1 was dropped; its channel has registered since,
\* on a connection that is open, and the queue is empty.
C28_Witness ==
    /\ 1 \in dropped
    /\ outbound_queue = <<>>
    /\ outbound_running
    /\ \E n \in ChannelNames :
          /\ handed = <<1>>
          /\ _channels[n] # NoConn
          /\ plugin_ws[_channels[n]] = "open"
          /\ nenqueued = 1

\* The handler of connection c reads a frame.
Reads(c) == to_hub[c] # <<>> /\ to_hub'[c] = Tail(to_hub[c])

\* C29: the router's inbound hook is not called for a channel.receive
\* frame of a connection that has registered no channel.
C29_HookOnlyAfterRegister ==
    [][\A c \in PluginConns :
          (Reads(c) /\ nreceived' = nreceived + 1) =>
              channel_name[c] # Null]_vars

\* The handler of connection c ends.
Ends(c) == plugin_ws[c] # "done" /\ plugin_ws'[c] = "done"

\* C30: when the handler of a connection ends, the channel it registered
\* is taken out of the map if it is still mapped to that connection, and
\* no other connection's name is: a name that was registered again on a
\* new connection before the old handler ended stays mapped to the new
\* connection.
C30_ChannelsFollowConnections ==
    [][\A c \in PluginConns : Ends(c) =>
          /\ \A n \in ChannelNames :
                (channel_name'[c] = n /\ _channels[n] = c) =>
                    _channels'[n] = NoConn
          /\ \A n \in ChannelNames :
                (channel_name'[c] = channel_name[c]
                    /\ _channels[n] \notin {NoConn, c}) =>
                        _channels'[n] = _channels[n]]_vars


(***************************************************************************)
(* Properties of the plugins' life (SpecLifecycle).                        *)
(***************************************************************************)
\* The supervisor has pushed the stored configuration on connection c.
ConfigPushed(c) ==
    \E k \in 1..Len(to_plugin[c]) : to_plugin[c][k].method = "channel.configure"

\* The place of the first call of the hook on connection c among the hook
\* calls of plugin n, 0 when there is none.
FirstCall(n, hook, c) ==
    IF \E k \in 1..Len(hooks[n]) : hooks[n][k] = Hook(hook, c)
    THEN CHOOSE k \in 1..Len(hooks[n]) :
            /\ hooks[n][k] = Hook(hook, c)
            /\ \A j \in 1..(k - 1) : hooks[n][j] # Hook(hook, c)
    ELSE 0

\* C25: the hooks of a plugin run in the order on_configure, on_start,
\* on_stop: on each connection, on_configure is not called after on_start,
\* on_stop is not called before on_start, and when on_start has run on a
\* connection on which the supervisor has pushed the stored configuration,
\* on_configure has applied it before.
C25_ConfigureBeforeStart ==
    \A n \in ChannelNames : \A c \in PluginConns :
        LET configured == FirstCall(n, "on_configure", c)
            started == FirstCall(n, "on_start", c)
            stopped == FirstCall(n, "on_stop", c)
        IN /\ stopped # 0 => started # 0 /\ started < stopped
           /\ started # 0 /\ configured # 0 => configured < started
           /\ started # 0 /\ ConfigPushed(c) => configured # 0

\* The children of the supervisor that still run.
running_children == {n \in ChannelNames : _subprocesses[n] = "running"}

\* The shutdown is complete: no child runs and the server socket is closed.
ShutDown == running_children = {} /\ ~Listening

\* The step of _shutdown_channels that sends the stop notifications.
StopsChannels == run_pc = "serving" /\ run_pc' = "sleeping"

\* C23: after the stop signal the supervisor sends channel.stop to every
\* connected channel; when the shutdown window ends, every child it spawned
\* has exited or was terminated and the server socket is closed; and every
\* stop signal leads to that.
C23_StopReachesAllAndEnds ==
    /\ [][StopsChannels =>
            \A n \in ChannelNames :
                _channels[n] # NoConn /\ plugin_ws[_channels[n]] = "open"
                => /\ Len(to_plugin'[_channels[n]])
                        = Len(to_plugin[_channels[n]]) + 1
                   /\ to_plugin'[_channels[n]][Len(to_plugin'[_channels[n]])]
                        = Notification("channel.stop", 0)]_vars
    /\ [](cancelled => ShutDown)
    /\ [](run_pc = "stopped" => ShutDown)
    /\ (_stop_event ~> ShutDown)

\* The window has ended after a shutdown that stopped a connected channel,
\* terminated one child and found the other one exited.
C23_Witness ==
    /\ cancelled
    /\ \E n \in ChannelNames : _subprocesses[n] = "terminated"
    /\ \E n \in ChannelNames : _subprocesses[n] = "exited"
    /\ \E c \in PluginConns : \E k \in 1..Len(to_plugin[c]) :
            to_plugin[c][k] = Notification("channel.stop", 0)


(***************************************************************************)
(* Properties of the Gateway registry and of the pending pairings.         *)
(***************************************************************************)
\* C34: an authenticated connection that has registered and is still open
\* stays in the registry under its device id until it closes itself; the
\* cleanup of the handler of a connection it displaced does not remove it.
C34_OpenConnectionStaysRegistered ==
    \A c \in Conns :
        pc[c] = "running" /\ wsOpen[c] => _registry[device_id[c]] = c


\* Handler c sends the frame it relays to one of its recipients.
RelaySends(c) == pc[c] = "sending" /\ recipients'[c] # recipients[c]

\* Handler c has ended or is in its cleanup.
Ending(c) == pc'[c] \in {"done", "unregister", "unregister_return"}

\* C35: a frame that cannot be delivered to its recipient does not end,
\* close or unregister the connection it came from: the handler of an open
\* connection that sends a relayed frame, or that handles a desktop's
\* pairing_response, goes on reading, and the connection keeps its registry
\* entry and its desktop slot.
C35_DeliveryFailureSparesSender ==
    [][\A c \in Conns :
          (RelaySends(c) \/ Responds(c)) /\ wsOpen[c] =>
              /\ ~Ending(c)
              /\ wsOpen'[c]
              /\ _registry[device_id[c]] = c => _registry'[device_id[c]] = c
              /\ _desktop_ws = c => _desktop_ws' = c]_vars


\* Connection p sent a pairing_request as its first frame.
PairingCaller(p) == first[p] = "pairing_request"

\* Handler c, of a connection of role device, reads a pairing_response.
DeviceResponds(c) ==
    /\ ~is_desktop[c]
    /\ pc[c] = "running"
    /\ nrecv'[c] = nrecv[c] + 1
    /\ cur'[c].type = "pairing_response"

\* The pairing wait of the caller of request r ends by its timeout.
Expires(r) == pc[r] = "pairing_wait" /\ wsOpen[r] /\ pc'[r] = "done"

\* C36: only a connection of role desktop resolves a pending pairing.  A
\* pairing_response read from a connection of role device changes no pending
\* entry; a pending entry is removed only by the desktop's response for it
\* or by its caller's timeout; and every pairing_response a pairing caller
\* gets was made from a desktop's response, none was relayed.
C36_OnlyDesktopResolvesPairing ==
    /\ [][\A c \in Conns :
             DeviceResponds(c) => /\ _pairing_pending' = _pairing_pending
                                  /\ \A p \in Conns :
                                        PairingCaller(p) => inbox'[p] = inbox[p]
         ]_vars
    /\ [][\A r \in Conns :
             _pairing_pending[r] # NoConn /\ _pairing_pending'[r] = NoConn =>
                \/ Expires(r)
                \/ \E c \in Conns : Responds(c) /\ cur'[c].request_id = r
         ]_vars
    /\ [](\A p \in Conns : \A k \in 1..Len(inbox[p]) :
             PairingCaller(p) /\ inbox[p][k].type = "pairing_response"
                => ~inbox[p][k].relayed)

\* A connection of role device has sent a pairing_response for a request
\* that is pending, and the request is still pending.
C36_Witness ==
    \E c \in Conns :
        /\ ~is_desktop[c]
        /\ cur[c].relayed
        /\ cur[c].type = "pairing_response"
        /\ cur[c].request_id \in Conns
        /\ _pairing_pending[cur[c].request_id] # NoConn
        /\ pc[_pairing_pending[cur[c].request_id]] = "pairing_wait"

\* C37: the pending map holds an entry only for a caller whose pairing wait
\* is in progress: once the handler of a pairing caller has ended, its
\* request_id is not pending.
C37_PendingOnlyWhileWaiting ==
    \A r \in Conns :
        _pairing_pending[r] # NoConn => pc[_pairing_pending[r]] = "pairing_wait"


\* Handler c reads its first frame, an auth_response: cur'[c].
ReadsAuthResponse(c) ==
    /\ pc[c] = "await_first"
    /\ first'[c] \in {"passed", "rejected"}
    /\ cur'[c].type = "auth_response"

\* C39: a handshake succeeds only with a signature over the nonce issued on
\* the same connection; an auth_response whose signature was made for the
\* nonce of another connection is rejected and the connection is closed
\* with 4003.
C39_NonceBoundToConnection ==
    [][\A c \in Conns :
          ReadsAuthResponse(c) =>
              /\ first'[c] = "passed" => cur'[c].nonce = generate_nonce(c)
              /\ cur'[c].nonce \notin {0, generate_nonce(c)} =>
                    /\ first'[c] = "rejected"
                    /\ pc'[c] = "done"
                    /\ ~wsOpen'[c]
                    /\ close_code'[c] = 4003]_vars


(***************************************************************************)
(* Properties of the devices plugin's reconnect loop (SpecBackoff).        *)
(***************************************************************************)
\* C33: the delay before a retry is 1 s for the first retry, doubles after
\* each failed attempt, never exceeds 60 s, and is 1 s again for the first
\* retry after a connection that had authenticated.
C33_BackoffDoublesAndResets ==
    \A i \in 1..Len(sleeps) :
        /\ sleeps[i].delay <= BACKOFF_MAX
        /\ i = 1 => sleeps[i].delay = BACKOFF_BASE
        /\ sleeps[i].authenticated => sleeps[i].delay = BACKOFF_BASE
        /\ i > 1 /\ ~sleeps[i].authenticated =>
              sleeps[i].delay = IF 2 * sleeps[i - 1].delay < BACKOFF_MAX
                                THEN 2 * sleeps[i - 1].delay ELSE BACKOFF_MAX


(***************************************************************************)
(* Progress of the router's outbound worker (SpecSupervisorLive).          *)
(***************************************************************************)
\* The message with this id was taken from the outbound queue.
Dequeued(id) == \E k \in 1..Len(handed) : handed[k] = id

\* C38: every message enqueued on the outbound queue is eventually dequeued
\* and handed to its channel or dropped, also when the send of an earlier
\* message to its plugin has failed.
C38_EveryOutboundDequeued ==
    \A id \in 1..MaxOutbound : (nenqueued >= id) ~> Dequeued(id)


\* The transport of plugin n is on a connection.
Connected(n) == transport_pc[n] \in {"registered", "listening"}
\* The process of plugin n is ended from outside: it crashes or is
\* terminated, and calls nothing more.
Killed(n) == _subprocesses'[n] # "running" /\ hooks'[n] = hooks[n]
\* The transport of plugin n leaves its connection.
ConnectionEnds(n) == Connected(n) /\ ~Connected(n)' /\ ~Killed(n)
\* The transport of plugin n makes a connection.
Connects(n) == _ws'[n] # NoConn /\ _ws'[n] # _ws[n]
\* The calls of on_stop of plugin n for the connection c.
on_stop_calls(n, c) ==
    {k \in 1..Len(hooks[n]) : hooks[n][k] = Hook("on_stop", c)}

\* C31: when the transport's connection ends it calls on_stop for it, once,
\* and waits RECONNECT_DELAY before it connects again unless it was stopped;
\* every connection it makes starts with channel.register; and once stop()
\* was called or channel.stop was received it makes no connection.
C31_ReconnectsUntilStopped ==
    /\ [][\A n \in ChannelNames :
            /\ ConnectionEnds(n)
                  => /\ hooks'[n] = Append(hooks[n], Hook("on_stop", _ws[n]))
                     /\ transport_pc'[n] =
                          IF transport_stop_event[n] THEN "exited"
                          ELSE "waiting"
            /\ Connects(n)
                  => /\ ~transport_stop_event[n]
                     /\ transport_pc[n] = "idle"
                     /\ to_hub'[_ws'[n]] =
                          <<[PF0 EXCEPT !.kind = "register", !.name = n]>>]_vars
    /\ [](\A n \in ChannelNames : \A c \in PluginConns :
            Cardinality(on_stop_calls(n, c)) <= 1)


\* The call of request with this id is over: it has returned or raised, or
\* the process that made it has ended.
RequestOver(id) ==
    \/ futures[id].state # "waiting"
    \/ _subprocesses[futures[id].plugin] # "running"
\* The transport of plugin n is between two connections and the model has
\* no further connection for it: the code would go on from here.
OutOfConnections(n) ==
    transport_pc[n] \in {"idle", "waiting"} /\ NextConn = NoConn

\* C32: every call of PluginTransport.request that waits for its response
\* eventually completes, with the response of its id or, when the
\* transport has lost its connection or was stopped, with a cancellation.
C32_RequestCompletes ==
    \A id \in RequestIds :
        (futures[id].state = "waiting")
            ~> (RequestOver(id) \/ OutOfConnections(futures[id].plugin))


\* The registries the Gateway can have.
Registries == [DeviceIds -> {NoConn} \cup Conns]

\* C40: the agent's reply to a text message of device X on the devices
\* channel is put on the outbound queue with recipient_id X, the plugin's
\* frame for it has target_device_id X, and the Gateway relays that frame
\* to the connection of X and to no other.
C40_ReplyGoesToSenderOnly ==
    /\ [](\A d \in Senders : \A payload \in ReceiveParams :
            validates(payload) => gateway_unified(d, payload).sender_id = d)
    /\ [][Processes /\ agent_msg.channel = "devices"
            => /\ Len(outbound_queue') = Len(outbound_queue) + 1
               /\ LET reply == outbound_queue'[Len(outbound_queue')]
                      target == send(reply).target_device_id
                  IN /\ target = agent_msg.sender_id
                     /\ \A registry \in Registries :
                           relay_recipients(registry, "hub", target)
                              \subseteq {registry[agent_msg.sender_id]}]_vars

=============================================================================
